---- MODULE Spec2Model ----
(***************************************************************************)
(* Model of the usage/carbon aggregation engine of the Ada carbon          *)
(* monitoring prototype: the ProjectEnergy cache behind project_usage_api  *)
(* and the refresh_energy_cache command (main/views.py,                    *)
(* main/management/commands/refresh_energy_cache.py, main/models.py), and  *)
(* the Workspace accumulator fed by sync_workspaces (main/models.py,       *)
(* main/management/commands/sync_workspaces.py).                           *)
(*                                                                         *)
(* Units.  Energy is kept in Wh (kWh * 1000), so a value rounded to three  *)
(* decimals of a kWh is an integer.  Time is in seconds; a timestamp taken *)
(* by timezone.now() is a pair <<seconds, sub>> where sub orders stamps    *)
(* taken within the same second.                                           *)
(***************************************************************************)
EXTENDS Integers, Sequences, FiniteSets, TLC

\* ------------------------------------------------------------------ bounds
MaxRows  == 2       \* ProjectEnergy rows the model lets the table hold
MaxTicks == 1       \* times the model lets the clock jump
FaultRows == 1      \* rows the table holds where the faults are explored
MaxCalls == 2       \* record_usage calls on one Workspace row, any arguments
MaxSamples == 3     \* record_usage calls on one row where the average is followed
MaxWsRows == 2      \* Workspace rows the model lets the table hold

\* ------------------------------------------------------------------ state
VARIABLES
  now,      \* the wall clock, unix seconds (time.time(), timezone.now())
  stamps,   \* timestamps handed out so far; orders stamps within a second
  ticks,    \* clock jumps so far
  rows,     \* the ProjectEnergy table, in insertion order
  creator,  \* creator[i]: the process that inserted rows[i]
  api,      \* api[p]: the project_usage_api request web worker p is serving
  cmd,      \* the refresh_energy_cache run
  wsRows,   \* the Workspace table, in insertion order
  wsFed,    \* wsFed[i]: what the record_usage calls on row i were given, summed
  wr,       \* wr[w]: the Workspace object process w holds, and where w is
  entry,    \* the WorkspaceUsageEntry a caller is filling in
  est,      \* the EstimatedUsageEntry a caller is filling in
  poll      \* the carbon-intensity cache of sync_workspaces and its last call

\* ---------------------------------------------------------------- helpers
Max(a, b) == IF a >= b THEN a ELSE b
Min(a, b) == IF a <= b THEN a ELSE b

RECURSIVE SumSeq(_)
SumSeq(s) == IF s = <<>> THEN 0 ELSE Head(s) + SumSeq(Tail(s))

\* Python round() of the exact quotient n/d (d > 0): nearest, ties to even.
RoundDiv(n, d) ==
  LET q == n \div d
      r == n % d
  IN  IF 2 * r > d THEN q + 1
      ELSE IF 2 * r < d THEN q
      ELSE IF q % 2 = 0 THEN q ELSE q + 1

\* Round(a * u / 10^7) for u < 10^6, computed without leaving 32 bits.
RoundMulDiv7(a, u) ==
  LET hi == u \div 1000
      lo == u % 1000
      t  == a * lo
      y  == a * hi + (t \div 1000)
      t0 == t % 1000
      q  == y \div 10000
      r  == (y % 10000) * 1000 + t0
  IN  IF 2 * r > 10000000 THEN q + 1
      ELSE IF 2 * r < 10000000 THEN q
      ELSE IF q % 2 = 0 THEN q ELSE q + 1

\* ------------------------------------------------------------- power spec
SpecKeys == <<"cpu_count", "cpu_tdp_w", "gpu_count", "gpu_tdp_w", "ram_w", "other_w">>

\* A Python number: v is its value, fl tells a float from an int.
PyInt(n)   == [v |-> n, fl |-> FALSE]
PyFloat(n) == [v |-> n, fl |-> TRUE]

DEFAULT_TDP_SPEC ==
  [cpu_count |-> PyInt(12), cpu_tdp_w |-> PyInt(12), gpu_count |-> PyInt(1),
   gpu_tdp_w |-> PyInt(250), ram_w |-> PyInt(20), other_w |-> PyInt(30)]

\* f"{x}": an int prints as its digits, a float with a decimal point.
PyFormat(x) == IF x.fl THEN <<x.v, ".0">> ELSE <<x.v>>

\* As _spec_hash, with cpu_tdp_w left out of the payload.
_spec_hash_no_cpu_tdp(spec) ==
  [i \in {1, 3, 4, 5, 6} |-> <<SpecKeys[i], PyFormat(spec[SpecKeys[i]])>>]

\* sha1 is taken to be injective on the payloads the program builds: the
\* digest is represented by the payload it was computed from.
_spec_hash(spec) == [i \in 1..6 |-> <<SpecKeys[i], PyFormat(spec[SpecKeys[i]])>>]

_cache_ttl_seconds(range_key) ==
  CASE range_key = "day"   -> 3600
    [] range_key = "month" -> 24 * 3600
    [] range_key = "year"  -> 24 * 3600

ValidRanges  == {"day", "month", "year"}
KnownSources == {"clf", "isis", "diamond"}
\* PROJECT_TO_LABELVAL with a mapping for one more source.
PROJECT_TO_LABELVAL_with_other == [s \in KnownSources \cup {"other"} |->
  CASE s = "clf" -> "CDAaaS" [] s = "isis" -> "IDAaaS" [] s = "diamond" -> "DDAaaS"
    [] s = "other" -> "ODAaaS"]

PROJECT_TO_LABELVAL == [s \in KnownSources |->
  CASE s = "clf" -> "CDAaaS" [] s = "isis" -> "IDAaaS" [] s = "diamond" -> "DDAaaS"]

\* _bin_meta(range_key) called when the clock reads t.
_bin_meta(range_key, t) ==
  CASE range_key = "day"   -> [start |-> t - 24 * 3600,   end |-> t, step_s |-> 3600]
    [] range_key = "month" -> [start |-> t - 30 * 86400,  end |-> t, step_s |-> 86400]
    [] range_key = "year"  -> [start |-> t - 365 * 86400, end |-> t, step_s |-> 86400]

\* ------------------------------------------------------ synthetic generator
DayLabels ==
  <<"00:00", "01:00", "02:00", "03:00", "04:00", "05:00", "06:00", "07:00",
    "08:00", "09:00", "10:00", "11:00", "12:00", "13:00", "14:00", "15:00",
    "16:00", "17:00", "18:00", "19:00", "20:00", "21:00", "22:00", "23:00">>
MonthLabels ==
  <<"D1", "D2", "D3", "D4", "D5", "D6", "D7", "D8", "D9", "D10",
    "D11", "D12", "D13", "D14", "D15", "D16", "D17", "D18", "D19", "D20",
    "D21", "D22", "D23", "D24", "D25", "D26", "D27", "D28", "D29", "D30">>
YearLabels ==
  <<"Jan", "Feb", "Mar", "Apr", "May", "Jun", "Jul", "Aug", "Sep", "Oct", "Nov", "Dec">>

\* Utilisation per hour in millionths: _util_profile_day(h) plus the h-th
\* draw of random.Random("project-usage").uniform(-0.05, 0.05), clamped to
\* [0.05, 0.95].  The generator is re-seeded on every call, so the draws are
\* the same on every call.
DayUtilMicro ==
  <<59367, 59380, 50000, 50000, 92043, 71166, 50000, 88529,
    278109, 378633, 514183, 537497, 674492, 666897, 728470, 727182,
    628559, 541301, 481958, 365523, 292423, 150639, 50000, 50000>>

\* Utilisation per month in millionths: season plus the m-th draw of
\* uniform(-0.07, 0.07) of the freshly seeded generator, clamped.
YearUtilMicro ==
  <<513114, 613132, 585114, 451202, 558860, 529632,
    474771, 436997, 539353, 617030, 654857, 457019>>

full_watts(spec) ==
  spec.cpu_count.v * spec.cpu_tdp_w.v + spec.gpu_count.v * spec.gpu_tdp_w.v
    + spec.ram_w.v + spec.other_w.v

\* As _make_series, with one generator seeded when the module is loaded and
\* shared by all calls: a call made after series were stored takes the draws
\* that follow the first call's.
_make_series_shared_rng(range_key, spec) ==
  LET fw   == full_watts(spec)
      day  == IF stamps = 0 THEN DayUtilMicro
              ELSE <<50000, 50000, 50000, 50000, 70626, 50000, 83780, 163873,
                     227331, 383916, 476302, 556947, 595802, 733132, 745071, 665882,
                     620193, 598240, 481982, 374295, 295615, 153541, 70497, 50000>>
      year == IF stamps = 0 THEN YearUtilMicro
              ELSE <<548693, 575123, 639859, 559522, 484386, 462344,
                     509742, 498676, 559393, 623951, 590690, 438838>>
  IN
  CASE range_key = "day" ->
         [labels |-> DayLabels,
          kwh |-> [h \in 1..24 |-> RoundDiv(fw * day[h], 1000000)]]
    [] range_key = "month" ->
         [labels |-> MonthLabels,
          kwh |-> [d \in 1..30 |-> fw * (IF (d % 7) \notin {6, 0} THEN 8 ELSE 4)]]
    [] range_key = "year" ->
         [labels |-> YearLabels,
          kwh |-> [m \in 1..12 |-> 10 * RoundMulDiv7(fw * 8 * 22, year[m])]]
    [] OTHER -> [labels |-> <<>>, kwh |-> <<>>]

\* _make_series(range_key, spec): labels and kWh per bin (in Wh).
_make_series(range_key, spec) ==
  LET fw == full_watts(spec) IN
  CASE range_key = "day" ->
         [labels |-> DayLabels,
          kwh |-> [h \in 1..24 |-> RoundDiv(fw * DayUtilMicro[h], 1000000)]]
    [] range_key = "month" ->
         [labels |-> MonthLabels,
          kwh |-> [d \in 1..30 |-> fw * (IF (d % 7) \notin {6, 0} THEN 8 ELSE 4)]]
    [] range_key = "year" ->
         [labels |-> YearLabels,
          kwh |-> [m \in 1..12 |-> 10 * RoundMulDiv7(fw * 8 * 22, YearUtilMicro[m])]]
    [] OTHER -> [labels |-> <<>>, kwh |-> <<>>]

\* ------------------------------------------------------- time bucketing
\* datetime.fromtimestamp(ts, tz=utc).month for ts >= 0 (proleptic Gregorian).
UtcMonth(ts) ==
  LET z   == (ts \div 86400) + 719468
      era == z \div 146097
      doe == z - era * 146097
      yoe == (doe - (doe \div 1460) + (doe \div 36524) - (doe \div 146096)) \div 365
      doy == doe - (365 * yoe + (yoe \div 4) - (yoe \div 100))
      mp  == (5 * doy + 2) \div 153
  IN  IF mp < 10 THEN mp + 3 ELSE mp - 9

\* _bin_setup(range_key) called when the clock reads t.
_bin_setup(range_key, t) ==
  CASE range_key = "day" ->
         [start |-> t - 24 * 3600, end |-> t, step_s |-> 3600,
          labels |-> DayLabels, bins |-> 24]
    [] range_key = "month" ->
         [start |-> t - 30 * 86400, end |-> t, step_s |-> 86400,
          labels |-> MonthLabels, bins |-> 30]
    [] range_key = "year" ->
         [start |-> t - 365 * 86400, end |-> t, step_s |-> 86400,
          labels |-> YearLabels, bins |-> 12]

\* As ts_to_bin, with the year window indexed by the month number 1..12.
ts_to_bin_month_number(range_key, start, ts) ==
  CASE range_key = "day"   -> Max(0, Min(23, (ts - start) \div 3600))
    [] range_key = "month" -> Max(0, Min(29, (ts - start) \div 86400))
    [] range_key = "year"  -> UtcMonth(ts)

\* The ts_to_bin closure _bin_setup returns (0-based index).
ts_to_bin(range_key, start, ts) ==
  CASE range_key = "day"   -> Max(0, Min(23, (ts - start) \div 3600))
    [] range_key = "month" -> Max(0, Min(29, (ts - start) \div 86400))
    [] range_key = "year"  -> UtcMonth(ts) - 1

\* ------------------------------------------------------ metrics backend
\* What one range query can come back with.  "raise": requests.get raised,
\* timed out, raise_for_status raised, or the body was not a JSON object.
\* "nodata": a JSON object without data.result (for instance an error
\* status in an HTTP-success reply).  "matrix": data.result holds series
\* whose points are listed in pts; a point sits k steps after the window
\* start and has the value n times the wattage factor of the expression
\* (cpu_tdp_w or ram_w); ok = FALSE marks an item that is not a
\* [timestamp, value] pair.  "badseries": a JSON object whose data.result
\* holds an entry that is not a series object (a string, a number);
\* _prom_query_range returns it and _ts_map_from_matrix raises on it.
QRaise  == [kind |-> "raise", pts |-> <<>>]
QNoData == [kind |-> "nodata", pts |-> <<>>]
QBadSeries == [kind |-> "badseries", pts |-> <<>>]
QMatrix(pts) == [kind |-> "matrix", pts |-> pts]
Pt(k, n, ok) == [k |-> k, n |-> n, ok |-> ok]

QueryOutcomes(bins) ==
  { QRaise, QNoData, QBadSeries,
    QMatrix(<<Pt(1, 2, TRUE), Pt(bins, 1, TRUE), Pt(1, 1, FALSE), Pt(1, 1, TRUE)>>) }

\* The answers <<rich, fast, ram>> an aggregation can meet, the outcomes taken
\* from the given kinds.  A query that is not issued has no outcome to
\* choose; its place holds QRaise.  issued = FALSE: no query is issued.
QueryAnswers(kinds, bins, issued) ==
  LET Q == {o \in QueryOutcomes(bins) : o.kind \in kinds}
  IN  IF ~issued THEN {<<QRaise, QRaise, QRaise>>}
      ELSE {a \in (Q \X (Q \cup {QRaise}) \X (Q \cup {QRaise})) :
              /\ a[1].kind # "raise" => a[2] = QRaise /\ a[3] \in Q
              /\ a[1].kind = "raise" => a[2] \in Q
              /\ (a[1].kind = "raise" /\ a[2].kind = "raise") => a[3] = QRaise
              /\ (a[1].kind = "raise" /\ a[2].kind # "raise") => a[3] \in Q}

\* _ts_map_from_matrix: {timestamp -> sum of values}, skipping bad points.
RECURSIVE SumAt(_, _, _, _, _)
SumAt(pts, ts, start, step_s, factor) ==
  IF pts = <<>> THEN 0
  ELSE (IF Head(pts).ok /\ start + Head(pts).k * step_s = ts
          THEN Head(pts).n * factor ELSE 0)
       + SumAt(Tail(pts), ts, start, step_s, factor)

_ts_map_from_matrix(out, start, step_s, factor) ==
  LET pts  == IF out.kind = "matrix" THEN out.pts ELSE <<>>
      keys == { start + pts[i].k * step_s : i \in { j \in 1..Len(pts) : pts[j].ok } }
  IN  [ts \in keys |-> SumAt(pts, ts, start, step_s, factor)]

MapGet(m, k) == IF k \in DOMAIN m THEN m[k] ELSE 0

\* As QLogOf, but the RAM expression is queried whatever the CPU queries did.
QLogOf_ram_always(rich, fast, ram) ==
  <<[expr |-> "cpu_rich", out |-> rich.kind]>>
    \o (IF rich.kind = "raise" THEN <<[expr |-> "cpu_fast", out |-> fast.kind]>> ELSE <<>>)
    \o <<[expr |-> "ram", out |-> ram.kind]>>

\* The log of the queries one aggregation issued, in order: the rich CPU
\* expression, the fast one only after the rich one raised, the RAM
\* expression only after a CPU query returned.
QLogOf(rich, fast, ram) ==
  <<[expr |-> "cpu_rich", out |-> rich.kind]>>
    \o (IF rich.kind = "raise" THEN <<[expr |-> "cpu_fast", out |-> fast.kind]>> ELSE <<>>)
    \o (IF rich.kind # "raise" \/ fast.kind # "raise"
          THEN <<[expr |-> "ram", out |-> ram.kind]>> ELSE <<>>)

\* The binning loop: every timestamp of either channel adds its watts to
\* its bin when the index is in range; each bin is then rounded to 3
\* decimals (an integer number of Wh here).
RECURSIVE bin_loop(_, _, _, _, _, _, _)
bin_loop(kwh_bins, all_ts, cpu_ts, ram_ts, range_key, start, step_s) ==
  IF all_ts = {} THEN kwh_bins
  ELSE LET ts    == CHOOSE t \in all_ts : \A u \in all_ts : t <= u
           watts == MapGet(cpu_ts, ts) + MapGet(ram_ts, ts)
           idx   == ts_to_bin(range_key, start, ts)
           next  == IF 0 <= idx /\ idx < Len(kwh_bins)
                      THEN [kwh_bins EXCEPT ![idx + 1] = @ + watts * (step_s \div 3600)]
                      ELSE kwh_bins
       IN  bin_loop(next, all_ts \ {ts}, cpu_ts, ram_ts, range_key, start, step_s)

\* As _prometheus_usage_series, but a RAM query that raised counts as a RAM
\* channel without data instead of failing the aggregation.
_prometheus_usage_series_ram_optional(source_key, range_key, spec, t, rich, fast, ram) ==
  LET w       == _bin_setup(range_key, t)
      cpu_mat == IF rich.kind # "raise" THEN rich ELSE fast
      cpu_ts  == _ts_map_from_matrix(cpu_mat, w.start, w.step_s, spec.cpu_tdp_w.v)
      ram_ts  == _ts_map_from_matrix(ram, w.start, w.step_s, spec.ram_w.v)
  IN  IF source_key \notin DOMAIN PROJECT_TO_LABELVAL
        THEN [ok |-> FALSE, labels |-> <<>>, kwh |-> <<>>, qlog |-> <<>>, win |-> <<>>]
      ELSE IF cpu_mat.kind = "raise"
        THEN [ok |-> FALSE, labels |-> <<>>, kwh |-> <<>>,
              qlog |-> QLogOf(rich, fast, ram), win |-> <<w.start, w.end, w.step_s>>]
      ELSE [ok |-> TRUE, labels |-> w.labels,
            kwh |-> bin_loop([i \in 1..w.bins |-> 0], DOMAIN cpu_ts \cup DOMAIN ram_ts,
                             cpu_ts, ram_ts, range_key, w.start, w.step_s),
            qlog |-> QLogOf(rich, fast, ram), win |-> <<w.start, w.end, w.step_s>>]

\* _prometheus_usage_series(source_key, range_key, spec) run when the clock
\* reads t, the three queries answering rich, fast and ram.  ok = FALSE: it
\* raised, in a query or, the queries done, in _ts_map_from_matrix.
_prometheus_usage_series(source_key, range_key, spec, t, rich, fast, ram) ==
  LET w       == _bin_setup(range_key, t)
      cpu_mat == IF rich.kind # "raise" THEN rich ELSE fast
      cpu_ts  == _ts_map_from_matrix(cpu_mat, w.start, w.step_s, spec.cpu_tdp_w.v)
      ram_ts  == _ts_map_from_matrix(ram, w.start, w.step_s, spec.ram_w.v)
  IN  IF source_key \notin DOMAIN PROJECT_TO_LABELVAL
        THEN [ok |-> FALSE, labels |-> <<>>, kwh |-> <<>>, qlog |-> <<>>, win |-> <<>>]
      ELSE IF cpu_mat.kind \in {"raise", "badseries"} \/ ram.kind \in {"raise", "badseries"}
        THEN [ok |-> FALSE, labels |-> <<>>, kwh |-> <<>>,
              qlog |-> QLogOf(rich, fast, ram), win |-> <<w.start, w.end, w.step_s>>]
      ELSE [ok |-> TRUE, labels |-> w.labels,
            kwh |-> bin_loop([i \in 1..w.bins |-> 0], DOMAIN cpu_ts \cup DOMAIN ram_ts,
                             cpu_ts, ram_ts, range_key, w.start, w.step_s),
            qlog |-> QLogOf(rich, fast, ram), win |-> <<w.start, w.end, w.step_s>>]

\* ------------------------------------------------------ ProjectEnergy table
\* ProjectEnergyQuerySet.latest_for / the inlined
\* filter(...).order_by("-updated_at").first(): the id of the row found,
\* 0 for None.  A row's id is its position in the table.
StampLess(a, b) == a[1] < b[1] \/ (a[1] = b[1] /\ a[2] < b[2])

\* As latest_scan, but ordered by updated_at ascending: the oldest match.
RECURSIVE latest_scan_ascending(_, _, _, _, _, _)
latest_scan_ascending(tbl, i, best, source, range_key, spec_hash) ==
  IF i > Len(tbl) THEN best
  ELSE LET r    == tbl[i]
           hit  == r.source = source /\ r.range_key = range_key /\ r.spec_hash = spec_hash
           take == hit /\ (best = 0 \/ StampLess(r.updated_at, tbl[best].updated_at))
       IN  latest_scan_ascending(tbl, i + 1, IF take THEN i ELSE best,
                                 source, range_key, spec_hash)

RECURSIVE latest_scan(_, _, _, _, _, _)
latest_scan(tbl, i, best, source, range_key, spec_hash) ==
  IF i > Len(tbl) THEN best
  ELSE LET r    == tbl[i]
           hit  == r.source = source /\ r.range_key = range_key /\ r.spec_hash = spec_hash
           take == hit /\ (best = 0 \/ StampLess(tbl[best].updated_at, r.updated_at))
       IN  latest_scan(tbl, i + 1, IF take THEN i ELSE best, source, range_key, spec_hash)

latest_for(tbl, source, range_key, spec_hash) ==
  latest_scan(tbl, 1, 0, source, range_key, spec_hash)

\* As ProjectEnergyConstraints, with the check on total_kwh left out.
ProjectEnergyConstraints_no_total(r) ==
  /\ r.step_seconds > 0
  /\ r.start_unix <= r.end_unix

\* The CheckConstraints of ProjectEnergy.Meta.
ProjectEnergyConstraints(r) ==
  /\ r.total_kwh >= 0
  /\ r.step_seconds > 0
  /\ r.start_unix <= r.end_unix

cacheVars == <<now, stamps, ticks, rows, creator, api, cmd>>
wsVars    == <<wsRows, wsFed, wr>>
objVars   == <<entry, est, poll>>
vars      == <<now, stamps, ticks, rows, creator, api, cmd, wsRows, wsFed, wr, entry, est, poll>>

Ticks  == {3600, 86400}        \* clock jumps, seconds

ApiProcs == {"w1", "w2"}

\* Query-string values.  PyLower is str.lower() on them.
RangeParams  == {"", "Month", "year", "week"}
SourceParams == {"CLF"}
PyLower(s) ==
  CASE s = "Month" -> "month"
    [] s = "CLF"   -> "clf"
    [] OTHER       -> s

\* A spec override in the query string: absent, a number (parsed by float())
\* or text float() rejects.
Absent  == [present |-> FALSE, ok |-> FALSE, v |-> 0]
Num(n)  == [present |-> TRUE,  ok |-> TRUE,  v |-> n]
Garbage == [present |-> TRUE,  ok |-> FALSE, v |-> 0]
NoOverrides == [k \in {SpecKeys[i] : i \in 1..6} |-> Absent]
NegOverrides == [NoOverrides EXCEPT !["other_w"] = Num(-1000), !["ram_w"] = Garbage]
OverrideParams == { NoOverrides, NegOverrides }
\* ?other_w=30 restates the default; ?cpu_tdp_w=24 doubles the CPU power.
SameOverrides == [NoOverrides EXCEPT !["other_w"] = Num(30)]
TdpOverrides  == [NoOverrides EXCEPT !["cpu_tdp_w"] = Num(24)]

\* The spec project_usage_api builds: the defaults, then every override
\* float() accepts.
ApiSpec(ov) ==
  [k \in DOMAIN DEFAULT_TDP_SPEC |->
     IF ov[k].present /\ ov[k].ok THEN PyFloat(ov[k].v) ELSE DEFAULT_TDP_SPEC[k]]

NoResp  == [status |-> 0, from |-> "", range |-> "", labels |-> <<>>, kwh |-> <<>>,
            total_kwh |-> 0, spec |-> <<>>]
IdleApi ==
  [pc |-> "idle", GET |-> <<>>, range_key |-> "", source |-> "",
   force_refresh |-> FALSE, spec |-> <<>>, shash |-> <<>>,
   looked |-> FALSE, readAt |-> 0, readLen |-> 0, row |-> 0,
   ok |-> FALSE, labels |-> <<>>, kwh |-> <<>>, total_kwh |-> 0,
   qlog |-> <<>>, win |-> <<>>, saved |-> 0, save_err |-> FALSE, resp |-> NoResp]

\* The refresh_energy_cache run before it starts.
IdleCmd ==
  [pc |-> "idle", force |-> FALSE, skip_fresh |-> FALSE, tasks |-> <<>>, i |-> 0,
   spec |-> <<>>, shash |-> <<>>, readLen |-> 0, latest |-> 0, checked |-> FALSE,
   labels |-> <<>>, kwh |-> <<>>, total |-> 0, qlog |-> <<>>, win |-> <<>>,
   outcome |-> "", saved |-> 0, key |-> <<>>, readAt |-> 0]

HttpResponseBadRequest == [NoResp EXCEPT !.status = 400]
JsonResponse(from, range_key, labels, kwh, total_kwh, spec) ==
  [status |-> 200, from |-> from, range |-> range_key, labels |-> labels,
   kwh |-> kwh, total_kwh |-> total_kwh, spec |-> spec]

\* ProjectEnergy.objects.create(...): the row as stored; auto_now stamps it.
NewRow(source, range_key, shash, spec, labels, kwh, total_kwh, meta) ==
  [source |-> source, range_key |-> range_key, spec_hash |-> shash, spec_json |-> spec,
   labels |-> labels, kwh |-> kwh, total_kwh |-> total_kwh,
   start_unix |-> meta.start, end_unix |-> meta.end, step_seconds |-> meta.step_s,
   created_at |-> <<now, stamps>>, updated_at |-> <<now, stamps>>]

\* As objects_create, but update_or_create on (source, range_key, spec_hash):
\* a row of the key is overwritten in place.
objects_update_or_create(tbl, row) ==
  LET K == {i \in 1..Len(tbl) : /\ tbl[i].source = row.source
                                /\ tbl[i].range_key = row.range_key
                                /\ tbl[i].spec_hash = row.spec_hash}
  IN  IF K = {} THEN Append(tbl, row)
      ELSE [tbl EXCEPT ![CHOOSE i \in K : TRUE] = row]

\* As objects_create, but get_or_create on (source, range_key, spec_hash): a
\* second row of a key is not written.
objects_get_or_create(tbl, row) ==
  IF \E i \in 1..Len(tbl) : /\ tbl[i].source = row.source
                            /\ tbl[i].range_key = row.range_key
                            /\ tbl[i].spec_hash = row.spec_hash
    THEN tbl
    ELSE Append(tbl, row)

\* ProjectEnergy.objects.create: an INSERT; the table gains the row at its end.
objects_create(tbl, row) == Append(tbl, row)

\* As IsFresh, with half the lifetime.
IsFresh_half(row, ttl) == now - row.updated_at[1] < ttl \div 2

\* As IsFresh, with the age compared by <= ttl.
IsFresh_inclusive(row, ttl) == now - row.updated_at[1] <= ttl

\* The cached row is fresh: (tz_now() - row.updated_at).total_seconds() < ttl.
\* Stamps of one second differ by less than a second, so the whole seconds
\* decide.
IsFresh(row, ttl) == now - row.updated_at[1] < ttl

CacheInit ==
  /\ now = 1700000000          \* the clock at the start (2023-11-14 UTC)
  /\ stamps = 0
  /\ ticks = 0
  /\ rows = <<>>
  /\ creator = <<>>
  /\ api = [p \in ApiProcs |-> IdleApi]
  /\ cmd = IdleCmd

\* The clock moves on, by one of the jumps.
Tick(maxTicks, jumps) ==
  /\ ticks < maxTicks
  /\ \E d \in jumps : now' = now + d
  /\ ticks' = ticks + 1
  /\ UNCHANGED <<stamps, rows, creator, api, cmd>>
  /\ UNCHANGED <<wsVars, objVars>>

\* As ApiStart, with the range tested after the spec is built and the cache
\* is read.
ApiStart_late_check(p, In) ==
  /\ api[p].pc = "idle"
  /\ \E rangeP \in In.range, sourceP \in In.source, force \in In.force_refresh,
        ov \in In.overrides, cache_only \in In.cache_only :
       LET range_key == PyLower(IF rangeP = "" THEN "day" ELSE rangeP)
           source    == PyLower(sourceP)
           spec      == ApiSpec(ov)
           shash     == _spec_hash(spec)
           GET       == [range |-> rangeP, source |-> sourceP, force_refresh |-> force,
                         overrides |-> ov, cache_only |-> cache_only]
           req       == [api[p] EXCEPT !.GET = GET, !.range_key = range_key,
                           !.source = source, !.force_refresh = force]
       IN  IF range_key \notin {"day", "month", "year"}
             THEN api' = [api EXCEPT ![p] =
                     [req EXCEPT !.pc = "done", !.resp = HttpResponseBadRequest,
                        !.spec = spec, !.shash = shash, !.readAt = now,
                        !.readLen = Len(rows),
                        !.row = IF source \in {"clf", "isis", "diamond"} /\ ~force
                                  THEN latest_for(rows, source, range_key, shash) ELSE 0]]
           ELSE
             LET ttl  == _cache_ttl_seconds(range_key)
                 look == source \in {"clf", "isis", "diamond"} /\ ~force
                 row  == IF look THEN latest_for(rows, source, range_key, shash) ELSE 0
                 req2 == [req EXCEPT !.spec = spec, !.shash = shash, !.looked = look,
                            !.readAt = now, !.readLen = Len(rows), !.row = row]
             IN  IF row # 0 /\ IsFresh(rows[row], ttl)
                   THEN api' = [api EXCEPT ![p] =
                          [req2 EXCEPT !.pc = "done",
                             !.resp = JsonResponse("db", range_key, rows[row].labels,
                                        rows[row].kwh, rows[row].total_kwh, spec)]]
                 ELSE api' = [api EXCEPT ![p] = [req2 EXCEPT !.pc = "compute"]]
  /\ UNCHANGED <<now, stamps, ticks, rows, creator, cmd>>
  /\ UNCHANGED <<wsVars, objVars>>

\* project_usage_api, from the top to the end of "1) Try cache": parse the
\* query string, reject a bad range, build spec and hash, read the cache.
ApiStart(p, In) ==
  /\ api[p].pc = "idle"
  /\ \E rangeP \in In.range, sourceP \in In.source, force \in In.force_refresh,
        ov \in In.overrides, cache_only \in In.cache_only :
       LET range_key == PyLower(IF rangeP = "" THEN "day" ELSE rangeP)
           source    == PyLower(sourceP)
           spec      == ApiSpec(ov)
           shash     == _spec_hash(spec)
           GET       == [range |-> rangeP, source |-> sourceP, force_refresh |-> force,
                         overrides |-> ov, cache_only |-> cache_only]
           req       == [api[p] EXCEPT !.GET = GET, !.range_key = range_key,
                           !.source = source, !.force_refresh = force]
       IN  IF range_key \notin {"day", "month", "year"}
             THEN api' = [api EXCEPT ![p] =
                     [req EXCEPT !.pc = "done", !.resp = HttpResponseBadRequest]]
           ELSE
             LET ttl  == _cache_ttl_seconds(range_key)
                 look == source \in {"clf", "isis", "diamond"} /\ ~force
                 row  == IF look THEN latest_for(rows, source, range_key, shash) ELSE 0
                 req2 == [req EXCEPT !.spec = spec, !.shash = shash, !.looked = look,
                            !.readAt = now, !.readLen = Len(rows), !.row = row]
             IN  IF row # 0 /\ IsFresh(rows[row], ttl)
                   THEN api' = [api EXCEPT ![p] =
                          [req2 EXCEPT !.pc = "done",
                             !.resp = JsonResponse("db", range_key, rows[row].labels,
                                        rows[row].kwh, rows[row].total_kwh, spec)]]
                 ELSE api' = [api EXCEPT ![p] = [req2 EXCEPT !.pc = "compute"]]
  /\ UNCHANGED <<now, stamps, ticks, rows, creator, cmd>>
  /\ UNCHANGED <<wsVars, objVars>>

\* "2) Compute": Prometheus for known sources, the mock otherwise, and the
\* mock again when the aggregation raised; then total_kwh.
ApiCompute(p, kinds) ==
  /\ api[p].pc = "compute"
  /\ LET r == api[p]
     IN  \E a \in QueryAnswers(kinds, _bin_setup(r.range_key, now).bins,
                               r.source \in DOMAIN PROJECT_TO_LABELVAL) :
           \E live \in {_prometheus_usage_series(r.source, r.range_key, r.spec, now,
                                                 a[1], a[2], a[3])} :
             \E res \in {IF r.source \in DOMAIN PROJECT_TO_LABELVAL /\ live.ok
                            THEN [labels |-> live.labels, kwh |-> live.kwh]
                            ELSE _make_series(r.range_key, r.spec)} :
               api' = [api EXCEPT ![p] =
                 [r EXCEPT !.pc = "save", !.ok = live.ok,
                    !.labels = res.labels, !.kwh = res.kwh,
                    !.total_kwh = SumSeq(res.kwh),
                    !.qlog = live.qlog, !.win = live.win]]
  /\ UNCHANGED <<now, stamps, ticks, rows, creator, cmd>>
  /\ UNCHANGED <<wsVars, objVars>>

\* "3) Save to DB" and the response.  db_up = FALSE: the insert fails for a
\* reason outside the row (connection lost, disk full, table locked); db is
\* the set of states the database can be in.
ApiSave(p, maxRows, db) ==
  /\ api[p].pc = "save"
  /\ \E db_up \in db :
       LET r    == api[p]
           row  == NewRow(r.source, r.range_key, r.shash, r.spec, r.labels, r.kwh,
                          r.total_kwh, _bin_meta(r.range_key, now))
           resp == JsonResponse("compute", r.range_key, r.labels, r.kwh, r.total_kwh, r.spec)
       IN  IF r.source \in {"clf", "isis", "diamond"}
             THEN IF db_up /\ ProjectEnergyConstraints(row)
                    THEN /\ Len(rows) < maxRows
                         /\ rows' = objects_create(rows, row)
                         /\ creator' = Append(creator, p)
                         /\ stamps' = stamps + 1
                         /\ api' = [api EXCEPT ![p] =
                              [r EXCEPT !.pc = "done", !.saved = Len(rows) + 1, !.resp = resp]]
                  ELSE /\ api' = [api EXCEPT ![p] =
                            [r EXCEPT !.pc = "done", !.save_err = TRUE, !.resp = resp]]
                       /\ UNCHANGED <<rows, creator, stamps>>
           ELSE /\ api' = [api EXCEPT ![p] = [r EXCEPT !.pc = "done", !.resp = resp]]
                /\ UNCHANGED <<rows, creator, stamps>>
  /\ UNCHANGED <<now, ticks, cmd>>
  /\ UNCHANGED <<wsVars, objVars>>

\* The response has gone out; the worker takes the next request.
ApiDone(p) ==
  /\ api[p].pc = "done"
  /\ api' = [api EXCEPT ![p] = IdleApi]
  /\ UNCHANGED <<now, stamps, ticks, rows, creator, cmd>>
  /\ UNCHANGED <<wsVars, objVars>>

\* ------------------------------------------------ refresh_energy_cache
\* The command line: --sources, --ranges, --force, --skip-fresh and the
\* spec overrides (argparse type=float; None when the option is absent).
\* The spec Command.handle builds: the defaults, then every option given.
CmdSpec(ov) ==
  [k \in DOMAIN DEFAULT_TDP_SPEC |->
     IF ov[k].present THEN PyFloat(ov[k].v) ELSE DEFAULT_TDP_SPEC[k]]

\* for source in sources: for range in ranges
TaskList(sources, ranges) ==
  [n \in 1..(Len(sources) * Len(ranges)) |->
     <<sources[((n - 1) \div Len(ranges)) + 1], ranges[((n - 1) % Len(ranges)) + 1]>>]

\* Command.handle up to the loop.
CmdStart(In) ==
  /\ cmd.pc = "idle"
  /\ \E sources \in In.sources, ranges \in In.ranges, force \in In.force,
        skip_fresh \in In.skip_fresh, ov \in In.overrides :
       cmd' = [IdleCmd EXCEPT !.pc = "check", !.force = force, !.skip_fresh = skip_fresh,
                 !.tasks = TaskList(sources, ranges), !.i = 1,
                 !.spec = CmdSpec(ov), !.shash = _spec_hash(CmdSpec(ov))]
  /\ UNCHANGED <<now, stamps, ticks, rows, creator, api>>
  /\ UNCHANGED <<wsVars, objVars>>

\* The step to the next task of the loop, or out of it.
CmdAdvance(c, outcome) ==
  [c EXCEPT !.outcome = outcome,
            !.i = @ + 1,
            !.pc = IF c.i + 1 > Len(c.tasks) THEN "finished" ELSE "check",
            !.labels = <<>>, !.kwh = <<>>, !.total = 0, !.win = <<>>]

\* "Optional TTL skip": read the latest row and skip the task when it is
\* within its TTL.
CmdCheck ==
  /\ cmd.pc = "check"
  /\ LET source == cmd.tasks[cmd.i][1]
         range  == cmd.tasks[cmd.i][2]
         look   == ~cmd.force /\ cmd.skip_fresh
         latest == IF look THEN latest_for(rows, source, range, cmd.shash) ELSE 0
         c      == [cmd EXCEPT !.checked = look, !.latest = latest,
                      !.readLen = Len(rows), !.readAt = now, !.qlog = <<>>,
                      !.key = <<source, range>>, !.outcome = "", !.saved = 0]
     IN  IF latest # 0 /\ IsFresh(rows[latest], _cache_ttl_seconds(range))
           THEN cmd' = CmdAdvance(c, "skip")
           ELSE cmd' = [c EXCEPT !.pc = "aggregate"]
  /\ UNCHANGED <<now, stamps, ticks, rows, creator, api>>
  /\ UNCHANGED <<wsVars, objVars>>

\* The aggregation of the task; any exception fails the task.
CmdAggregate(kinds) ==
  /\ cmd.pc = "aggregate"
  /\ LET source == cmd.tasks[cmd.i][1]
         range  == cmd.tasks[cmd.i][2]
     IN  IF source \notin DOMAIN PROJECT_TO_LABELVAL \/ range \notin ValidRanges
           THEN cmd' = CmdAdvance(cmd, "fail")
         ELSE
           \E a \in QueryAnswers(kinds, _bin_setup(range, now).bins, TRUE) :
             \E live \in {_prometheus_usage_series(source, range, cmd.spec, now,
                                                   a[1], a[2], a[3])} :
                    IF live.ok
                      THEN cmd' = [cmd EXCEPT !.pc = "create", !.labels = live.labels,
                                     !.kwh = live.kwh, !.total = SumSeq(live.kwh),
                                     !.qlog = live.qlog, !.win = live.win]
                    ELSE cmd' = CmdAdvance([cmd EXCEPT !.qlog = live.qlog], "fail")
  /\ UNCHANGED <<now, stamps, ticks, rows, creator, api>>
  /\ UNCHANGED <<wsVars, objVars>>

\* _bin_meta and ProjectEnergy.objects.create of the task.
CmdCreate(maxRows) ==
  /\ cmd.pc = "create"
  /\ \E db_up \in BOOLEAN :
       LET source == cmd.tasks[cmd.i][1]
           range  == cmd.tasks[cmd.i][2]
           row    == NewRow(source, range, cmd.shash, cmd.spec, cmd.labels, cmd.kwh,
                            cmd.total, _bin_meta(range, now))
       IN  IF db_up /\ ProjectEnergyConstraints(row)
             THEN /\ Len(rows) < maxRows
                  /\ rows' = objects_create(rows, row)
                  /\ creator' = Append(creator, "cmd")
                  /\ stamps' = stamps + 1
                  /\ cmd' = CmdAdvance([cmd EXCEPT !.saved = Len(rows) + 1], "ok")
           ELSE /\ cmd' = CmdAdvance(cmd, "fail")
                /\ UNCHANGED <<rows, creator, stamps>>
  /\ UNCHANGED <<now, ticks, api>>
  /\ UNCHANGED <<wsVars, objVars>>

\* The run is over; cron starts the next one.
CmdFinish ==
  /\ cmd.pc = "finished"
  /\ cmd' = IdleCmd
  /\ UNCHANGED <<now, stamps, ticks, rows, creator, api>>
  /\ UNCHANGED <<wsVars, objVars>>

\* ------------------------------------------------------------ Workspace
\* Energy is counted in whole kWh and CO2e in grams (kg * 1000), so
\* energy_kwh * ci_g_per_kwh is the mass of a sample.  A nullable field
\* holds NoneV or Some(value); avg_ci_g_per_kwh is a fraction <<num, den>>
\* in lowest terms.
NoneV   == [none |-> TRUE]
Some(x) == [none |-> FALSE, v |-> x]

Abs(n) == IF n < 0 THEN -n ELSE n
RECURSIVE GCD(_, _)
GCD(a, b) == IF b = 0 THEN a ELSE GCD(b, a % b)
Frac(n, d) ==
  LET g == GCD(Abs(n), Abs(d))
      sg == IF d < 0 THEN -1 ELSE 1
  IN  <<sg * (n \div g), sg * (d \div g)>>

WsHosts == {"host-1"}

\* A row as Workspace.objects.create / get_or_create makes it.
NewWorkspace(source, hostname) ==
  [source |-> source, hostname |-> hostname, started_at |-> NoneV,
   runtime_seconds |-> 0, total_kwh |-> 0, total_kg |-> 0, idle_kwh |-> 0, idle_kg |-> 0,
   avg_ci_g_per_kwh |-> NoneV, last_ci_g_per_kwh |-> NoneV, last_sampled_at |-> NoneV]

\* Workspace._ci_to_kg, in grams.
_ci_to_kg(kwh, ci_g_per_kwh) ==
  IF ci_g_per_kwh.none \/ ci_g_per_kwh.v = 0 THEN 0
  ELSE Max(0, kwh * ci_g_per_kwh.v)

\* As running_avg, with the old average weighted by the new total.
running_avg_unweighted(avg, total_kwh, energy_kwh, ci) ==
  IF avg.none THEN Some(Frac(ci, 1))
  ELSE IF total_kwh = 0 THEN avg
  ELSE Some(Frac(total_kwh * avg.v[1] + energy_kwh * ci * avg.v[2],
                 total_kwh * avg.v[2]))

\* The running average record_usage keeps.  prev_kwh = max(1e-12, total_kwh)
\* is total_kwh unless the total is still 0; the total is a sum of clamped
\* energies, so then this sample's energy is 0 too and the quotient
\* ((1e-12 - 0) * avg + 0) / 1e-12 is avg.
running_avg(avg, total_kwh, energy_kwh, ci) ==
  IF avg.none THEN Some(Frac(ci, 1))
  ELSE IF total_kwh = 0 THEN avg
  ELSE Some(Frac((total_kwh - energy_kwh) * avg.v[1] + energy_kwh * ci * avg.v[2],
                 total_kwh * avg.v[2]))

\* As record_usage, but idle energy and idle carbon go to the idle totals
\* only.
record_usage_idle_apart(self, duration_s, energy_kwh, ci_g_per_kwh, idle, t) ==
  LET d    == Max(0, duration_s)
      e    == Max(0, energy_kwh)
      kg   == _ci_to_kg(e, ci_g_per_kwh)
      tot  == self.total_kwh + (IF idle THEN 0 ELSE e)
      base == [self EXCEPT !.runtime_seconds = @ + (IF ~idle THEN d ELSE 0),
                           !.total_kwh = tot,
                           !.idle_kwh = IF idle THEN @ + e ELSE @]
  IN  IF ci_g_per_kwh.none THEN base
      ELSE [base EXCEPT !.total_kg = IF idle THEN @ ELSE @ + kg,
                        !.idle_kg = IF idle THEN @ + kg ELSE @,
                        !.last_ci_g_per_kwh = ci_g_per_kwh,
                        !.last_sampled_at = Some(t)]

\* As record_usage, without the max(0, ...) clamps on duration and energy.
record_usage_unclamped(self, duration_s, energy_kwh, ci_g_per_kwh, idle, t) ==
  LET d    == duration_s
      e    == energy_kwh
      kg   == _ci_to_kg(e, ci_g_per_kwh)
      tot  == self.total_kwh + e
      base == [self EXCEPT !.runtime_seconds = @ + (IF ~idle THEN d ELSE 0),
                           !.total_kwh = tot,
                           !.idle_kwh = IF idle THEN @ + e ELSE @]
  IN  IF ci_g_per_kwh.none THEN base
      ELSE [base EXCEPT !.total_kg = @ + kg,
                        !.idle_kg = IF idle THEN @ + kg ELSE @,
                        !.avg_ci_g_per_kwh =
                            running_avg(self.avg_ci_g_per_kwh, tot, e, ci_g_per_kwh.v),
                        !.last_ci_g_per_kwh = ci_g_per_kwh,
                        !.last_sampled_at = Some(t)]

\* As record_usage, with last_sampled_at stamped on every call.
record_usage_always_stamped(self, duration_s, energy_kwh, ci_g_per_kwh, idle, t) ==
  LET d    == Max(0, duration_s)
      e    == Max(0, energy_kwh)
      kg   == _ci_to_kg(e, ci_g_per_kwh)
      tot  == self.total_kwh + e
      base == [self EXCEPT !.runtime_seconds = @ + (IF ~idle THEN d ELSE 0),
                           !.total_kwh = tot,
                           !.idle_kwh = IF idle THEN @ + e ELSE @,
                           !.last_sampled_at = Some(t)]
  IN  IF ci_g_per_kwh.none THEN base
      ELSE [base EXCEPT !.total_kg = @ + kg,
                        !.idle_kg = IF idle THEN @ + kg ELSE @,
                        !.avg_ci_g_per_kwh =
                            running_avg(self.avg_ci_g_per_kwh, tot, e, ci_g_per_kwh.v),
                        !.last_ci_g_per_kwh = ci_g_per_kwh]

\* As record_usage, with last_ci_g_per_kwh taken from every call.
record_usage_last_ci_always(self, duration_s, energy_kwh, ci_g_per_kwh, idle, t) ==
  LET d    == Max(0, duration_s)
      e    == Max(0, energy_kwh)
      kg   == _ci_to_kg(e, ci_g_per_kwh)
      tot  == self.total_kwh + e
      base == [self EXCEPT !.runtime_seconds = @ + (IF ~idle THEN d ELSE 0),
                           !.total_kwh = tot,
                           !.idle_kwh = IF idle THEN @ + e ELSE @,
                           !.last_ci_g_per_kwh = ci_g_per_kwh]
  IN  IF ci_g_per_kwh.none THEN base
      ELSE [base EXCEPT !.total_kg = @ + kg,
                        !.idle_kg = IF idle THEN @ + kg ELSE @,
                        !.avg_ci_g_per_kwh =
                            running_avg(self.avg_ci_g_per_kwh, tot, e, ci_g_per_kwh.v),
                        !.last_sampled_at = Some(t)]

\* Workspace.record_usage(duration_s, energy_kwh, ci_g_per_kwh, idle) called
\* when the clock reads t: the object after the call.
record_usage(self, duration_s, energy_kwh, ci_g_per_kwh, idle, t) ==
  LET d    == Max(0, duration_s)
      e    == Max(0, energy_kwh)
      kg   == _ci_to_kg(e, ci_g_per_kwh)
      tot  == self.total_kwh + e
      base == [self EXCEPT !.runtime_seconds = @ + (IF ~idle THEN d ELSE 0),
                           !.total_kwh = tot,
                           !.idle_kwh = IF idle THEN @ + e ELSE @]
  IN  IF ci_g_per_kwh.none THEN base
      ELSE [base EXCEPT !.total_kg = @ + kg,
                        !.idle_kg = IF idle THEN @ + kg ELSE @,
                        !.avg_ci_g_per_kwh =
                            running_avg(self.avg_ci_g_per_kwh, tot, e, ci_g_per_kwh.v),
                        !.last_ci_g_per_kwh = ci_g_per_kwh,
                        !.last_sampled_at = Some(t)]

\* self.save(update_fields=[...]) of record_usage: the stored row takes the
\* listed fields from the object and keeps the others.
save_usage(stored, self) ==
  [stored EXCEPT !.runtime_seconds = self.runtime_seconds,
                 !.total_kwh = self.total_kwh, !.total_kg = self.total_kg,
                 !.idle_kwh = self.idle_kwh, !.idle_kg = self.idle_kg,
                 !.avg_ci_g_per_kwh = self.avg_ci_g_per_kwh,
                 !.last_ci_g_per_kwh = self.last_ci_g_per_kwh,
                 !.last_sampled_at = self.last_sampled_at]

WsProcs == {"sync1", "sync2"}
\* call: the intensity argument and the time of the last record_usage call on
\* the object held.
NoCall == [made |-> FALSE, ci |-> NoneV, at |-> 0]
IdleWriter ==
  [pc |-> "idle", id |-> 0, host |-> "", boot_ts |-> NoneV, obj |-> <<>>, call |-> NoCall]

\* What the calls on a row were given: how many there were, the object a
\* single holder would have after them, and the sums of energy and of
\* energy * intensity over the calls (every = every call so far gave a
\* non-negative energy and an intensity; neg = some call gave a negative
\* energy or duration).
NoFeed(source, hostname) ==
  [calls |-> 0, serial |-> NewWorkspace(source, hostname),
   sumE |-> 0, sumEC |-> 0, every |-> TRUE, neg |-> FALSE]

WsInit ==
  /\ wsRows = <<>>
  /\ wsFed = <<>>
  /\ wr = [w \in WsProcs |-> IdleWriter]

\* Workspace.mark_started(ts) called when the clock reads t: the object
\* after the call.  An object that has a start time keeps it; otherwise the
\* start time becomes ts, or the clock when ts is None.
mark_started(self, ts, t) ==
  IF self.started_at.none
    THEN [self EXCEPT !.started_at = IF ts.none THEN Some(t) ELSE ts]
    ELSE self

\* The boot time the node exporter reports for a host, when it reports one;
\* RebootTimes adds the boot time it reports after the host was restarted.
BootTimes == {NoneV, Some(1699990000)}
RebootTimes == BootTimes \cup {Some(1699995000)}

\* Workspace.objects.get_or_create(source, hostname), the lookup: one row
\* found loads it, none leads to the insert, several raise
\* MultipleObjectsReturned and the pass ends.  boot_ts is the boot time
\* sync_source read for the host before the loop.
WsGet(w, boots) ==
  /\ wr[w].pc = "idle"
  /\ \E host \in WsHosts, boot_ts \in boots :
       LET found == {i \in 1..Len(wsRows) :
                       wsRows[i].source = "clf" /\ wsRows[i].hostname = host}
       IN  IF found = {}
             THEN wr' = [wr EXCEPT ![w] =
                    [IdleWriter EXCEPT !.pc = "create", !.host = host, !.boot_ts = boot_ts]]
           ELSE IF Cardinality(found) = 1
             THEN wr' = [wr EXCEPT ![w] =
                    [pc |-> "got", id |-> CHOOSE j \in found : TRUE, host |-> host,
                     boot_ts |-> boot_ts, obj |-> wsRows[CHOOSE j \in found : TRUE],
                     call |-> NoCall]]
           ELSE wr' = [wr EXCEPT ![w] = IdleWriter]
  /\ UNCHANGED <<wsRows, wsFed>>
  /\ UNCHANGED <<cacheVars, objVars>>

\* get_or_create, the insert after a lookup that found nothing.
WsCreate(w) ==
  /\ wr[w].pc = "create"
  /\ Len(wsRows) < MaxWsRows
  /\ LET row == NewWorkspace("clf", wr[w].host)
     IN  /\ wsRows' = Append(wsRows, row)
         /\ wsFed' = Append(wsFed, NoFeed("clf", wr[w].host))
         /\ wr' = [wr EXCEPT ![w] =
              [pc |-> "got", id |-> Len(wsRows) + 1, host |-> wr[w].host,
               boot_ts |-> wr[w].boot_ts, obj |-> row, call |-> NoCall]]
  /\ UNCHANGED <<cacheVars, objVars>>

\* "if boot_ts and not ws.started_at: ws.mark_started(...)": the call and its
\* save(update_fields=["started_at", "updated_at"]), which writes the
\* object's start time to the stored row.
WsMark(w) ==
  /\ wr[w].pc = "got"
  /\ IF ~wr[w].boot_ts.none /\ wr[w].boot_ts.v # 0 /\ wr[w].obj.started_at.none
       THEN \E self \in {mark_started(wr[w].obj, wr[w].boot_ts, now)} :
              /\ wr' = [wr EXCEPT ![w].pc = "loaded", ![w].obj = self]
              /\ wsRows' = [wsRows EXCEPT ![wr[w].id].started_at = self.started_at]
     ELSE /\ wr' = [wr EXCEPT ![w].pc = "loaded"]
          /\ UNCHANGED wsRows
  /\ UNCHANGED wsFed
  /\ UNCHANGED <<cacheVars, objVars>>

\* One record_usage call on the object w holds, saving included.
WsRecord(w, In, maxCalls) ==
  /\ wr[w].pc = "loaded"
  /\ wsFed[wr[w].id].calls < maxCalls
  /\ \E duration_s \in In.duration_s, energy_kwh \in In.energy_kwh,
        ci \in In.ci_g_per_kwh, idle \in In.idle :
       LET i    == wr[w].id
           self == record_usage(wr[w].obj, duration_s, energy_kwh, ci, idle, now)
           fed  == wsFed[i]
       IN  /\ wr' = [wr EXCEPT ![w].obj = self,
                               ![w].call = [made |-> TRUE, ci |-> ci, at |-> now]]
           /\ wsRows' = [wsRows EXCEPT ![i] = save_usage(@, self)]
           /\ wsFed' = [wsFed EXCEPT ![i] =
                [calls  |-> fed.calls + 1,
                 serial |-> record_usage(fed.serial, duration_s, energy_kwh, ci, idle, now),
                 sumE   |-> fed.sumE + (IF energy_kwh >= 0 THEN energy_kwh ELSE 0),
                 sumEC  |-> fed.sumEC + (IF energy_kwh >= 0 /\ ~ci.none
                                           THEN energy_kwh * ci.v ELSE 0),
                 every  |-> fed.every /\ energy_kwh >= 0 /\ ~ci.none,
                 neg    |-> fed.neg \/ energy_kwh < 0 \/ duration_s < 0]]
  /\ UNCHANGED <<cacheVars, objVars>>

\* _update_workspace_row returns; the object is dropped.
WsRelease(w) ==
  /\ wr[w].pc = "loaded"
  /\ wr' = [wr EXCEPT ![w] = IdleWriter]
  /\ UNCHANGED <<wsRows, wsFed>>
  /\ UNCHANGED <<cacheVars, objVars>>

\* ---------------------------------------------------- WorkspaceUsageEntry
\* WorkspaceUsageEntry.__init__: every piece of data is None and the status
\* is "initialized".  Energy and carbon are whole units here.
NewEntry ==
  [timestamp |-> NoneV, user_info |-> NoneV,
   busy_cpu_seconds_total |-> NoneV, idle_cpu_seconds_total |-> NoneV,
   busy_usage_kwh |-> NoneV, idle_usage_kwh |-> NoneV, total_usage_kwh |-> NoneV,
   busy_usage_gco2eq |-> NoneV, idle_usage_gco2eq |-> NoneV,
   total_usage_gco2eq |-> NoneV,
   carbon_intensity_g_per_kwh |-> NoneV, carbon_equivalencies |-> NoneV,
   status |-> "initialized", cpu_tdp_w |-> NoneV]

\* _update_status without the carbon test: "processed" as soon as the CPU
\* seconds and the energy are there.
_update_status_no_carbon(self) ==
  LET has_cpu == ~self.busy_cpu_seconds_total.none /\ ~self.idle_cpu_seconds_total.none
      has_kwh == ~self.busy_usage_kwh.none /\ ~self.idle_usage_kwh.none
      has_user == ~self.user_info.none
      has_timestamp == ~self.timestamp.none
  IN  [self EXCEPT !.status =
         IF has_cpu /\ has_kwh /\ has_user /\ has_timestamp THEN "complete"
         ELSE IF has_cpu /\ has_kwh THEN "processed"
         ELSE IF has_cpu THEN "downloaded"
         ELSE "initialized"]

\* WorkspaceUsageEntry._update_status: the status is computed afresh from
\* the data the object holds.
_update_status(self) ==
  LET has_cpu == ~self.busy_cpu_seconds_total.none /\ ~self.idle_cpu_seconds_total.none
      has_kwh == ~self.busy_usage_kwh.none /\ ~self.idle_usage_kwh.none
      has_carbon == ~self.busy_usage_gco2eq.none /\ ~self.idle_usage_gco2eq.none
      has_user == ~self.user_info.none
      has_timestamp == ~self.timestamp.none
  IN  [self EXCEPT !.status =
         IF has_cpu /\ has_kwh /\ has_carbon /\ has_user /\ has_timestamp
           THEN "complete"
         ELSE IF has_cpu /\ has_kwh /\ has_carbon THEN "processed"
         ELSE IF has_cpu THEN "downloaded"
         ELSE "initialized"]

\* The setters: each stores what it is given and updates the status.
set_timestamp(self, timestamp) ==
  _update_status([self EXCEPT !.timestamp = Some(timestamp)])

set_user_info(self, user_info) ==
  _update_status([self EXCEPT !.user_info = Some(user_info)])

set_cpu_seconds_total(self, busy_cpu_seconds, idle_cpu_seconds) ==
  _update_status([self EXCEPT !.busy_cpu_seconds_total = Some(busy_cpu_seconds),
                              !.idle_cpu_seconds_total = Some(idle_cpu_seconds)])

set_usage_kwh(self, busy_kwh, idle_kwh) ==
  _update_status([self EXCEPT !.busy_usage_kwh = Some(busy_kwh),
                              !.idle_usage_kwh = Some(idle_kwh),
                              !.total_usage_kwh = Some(busy_kwh + idle_kwh)])

\* carbon_intensity is optional: None leaves the stored intensity alone.
set_usage_gco2eq(self, busy_gco2eq, idle_gco2eq, carbon_intensity) ==
  _update_status([self EXCEPT
    !.busy_usage_gco2eq = Some(busy_gco2eq),
    !.idle_usage_gco2eq = Some(idle_gco2eq),
    !.total_usage_gco2eq = Some(busy_gco2eq + idle_gco2eq),
    !.carbon_intensity_g_per_kwh =
       IF carbon_intensity.none THEN @ ELSE carbon_intensity])

set_carbon_equivalencies(self, equivalencies) ==
  _update_status([self EXCEPT !.carbon_equivalencies = Some(equivalencies)])

set_cpu_tdp(self, cpu_tdp_w) ==
  _update_status([self EXCEPT !.cpu_tdp_w = Some(cpu_tdp_w)])

EntryInit == entry = NewEntry

\* One setter call on the entry, one action per setter.
EntrySetTimestamp ==
  /\ \E ts \in {1700000000, 1700003600} : entry' = set_timestamp(entry, ts)
  /\ UNCHANGED <<cacheVars, wsVars, est, poll>>

EntrySetUserInfo ==
  /\ \E u \in {"john.doe"} : entry' = set_user_info(entry, u)
  /\ UNCHANGED <<cacheVars, wsVars, est, poll>>

EntrySetCpuSecondsTotal ==
  /\ \E b \in {0, 3600}, i \in {0, 3600} :
        entry' = set_cpu_seconds_total(entry, b, i)
  /\ UNCHANGED <<cacheVars, wsVars, est, poll>>

EntrySetUsageKwh ==
  /\ \E b \in {0, 3600}, i \in {0, 3600} :
        entry' = set_usage_kwh(entry, b, i)
  /\ UNCHANGED <<cacheVars, wsVars, est, poll>>

EntrySetUsageGco2eq ==
  /\ \E b \in {0, 3600}, i \in {0, 3600}, ci \in {NoneV, Some(45)} :
        entry' = set_usage_gco2eq(entry, b, i, ci)
  /\ UNCHANGED <<cacheVars, wsVars, est, poll>>

EntrySetCarbonEquivalencies ==
  /\ entry' = set_carbon_equivalencies(entry, "top5")
  /\ UNCHANGED <<cacheVars, wsVars, est, poll>>

EntrySetCpuTdp ==
  /\ entry' = set_cpu_tdp(entry, 100)
  /\ UNCHANGED <<cacheVars, wsVars, est, poll>>

\* ---------------------------------------------------- EstimatedUsageEntry
\* EstimatedUsageEntry.__init__.
NewEstimatedUsageEntry ==
  [timestamp |-> NoneV,
   busy_cpu_seconds_total |-> NoneV, idle_cpu_seconds_total |-> NoneV,
   busy_usage_kwh |-> NoneV, idle_usage_kwh |-> NoneV,
   busy_usage_gCO2eq |-> NoneV, idle_usage_gCO2eq |-> NoneV,
   status |-> "not downloaded"]

\* determine_status with the first two tests swapped: "not downloaded"
\* whenever the CPU seconds are missing.
determine_status_cpu_first(self) ==
  LET has_cpu == ~self.busy_cpu_seconds_total.none /\ ~self.idle_cpu_seconds_total.none
      has_kwh == ~self.busy_usage_kwh.none /\ ~self.idle_usage_kwh.none
      has_co2 == ~self.busy_usage_gCO2eq.none /\ ~self.idle_usage_gCO2eq.none
      has_usage == has_kwh /\ has_co2
  IN  [self EXCEPT !.status =
         IF ~has_cpu THEN "not downloaded"
         ELSE IF ~has_cpu /\ has_usage THEN "fake"
         ELSE IF ~has_usage THEN "unprocessed"
         ELSE "processed"]

\* EstimatedUsageEntry.determine_status.
determine_status(self) ==
  LET has_cpu == ~self.busy_cpu_seconds_total.none /\ ~self.idle_cpu_seconds_total.none
      has_kwh == ~self.busy_usage_kwh.none /\ ~self.idle_usage_kwh.none
      has_co2 == ~self.busy_usage_gCO2eq.none /\ ~self.idle_usage_gCO2eq.none
      has_usage == has_kwh /\ has_co2
  IN  [self EXCEPT !.status =
         IF ~has_cpu /\ has_usage THEN "fake"
         ELSE IF ~has_cpu THEN "not downloaded"
         ELSE IF ~has_usage THEN "unprocessed"
         ELSE "processed"]

\* The setters store what they are given, None included (an entry loaded
\* from a file hands over whatever the file holds), and determine the status.
est_set_cpu_seconds_total(self, busy_cpu_seconds_total, idle_cpu_seconds_total) ==
  determine_status([self EXCEPT !.busy_cpu_seconds_total = busy_cpu_seconds_total,
                                !.idle_cpu_seconds_total = idle_cpu_seconds_total])

est_set_usage_kwh(self, busy_usage_kwh, idle_usage_kwh) ==
  determine_status([self EXCEPT !.busy_usage_kwh = busy_usage_kwh,
                                !.idle_usage_kwh = idle_usage_kwh])

set_usage_gCO2eq(self, busy_usage_gCO2eq, idle_usage_gCO2eq) ==
  determine_status([self EXCEPT !.busy_usage_gCO2eq = busy_usage_gCO2eq,
                                !.idle_usage_gCO2eq = idle_usage_gCO2eq])

est_set_timestamp(self, timestamp) ==
  determine_status([self EXCEPT !.timestamp = timestamp])

\* est.obj is the entry, est.call the setter that was called last.
EstInit == est = [obj |-> NewEstimatedUsageEntry, call |-> "__init__"]

EstSetCpuSecondsTotal ==
  /\ \E b \in {NoneV, Some(0), Some(100)}, i \in {NoneV, Some(0), Some(100)} :
        est' = [obj |-> est_set_cpu_seconds_total(est.obj, b, i),
                call |-> "set_cpu_seconds_total"]
  /\ UNCHANGED <<cacheVars, wsVars, entry, poll>>

EstSetUsageKwh ==
  /\ \E b \in {NoneV, Some(0), Some(100)}, i \in {NoneV, Some(0), Some(100)} :
        est' = [obj |-> est_set_usage_kwh(est.obj, b, i), call |-> "set_usage_kwh"]
  /\ UNCHANGED <<cacheVars, wsVars, entry, poll>>

EstSetUsageGCO2eq ==
  /\ \E b \in {NoneV, Some(0), Some(100)}, i \in {NoneV, Some(0), Some(100)} :
        est' = [obj |-> set_usage_gCO2eq(est.obj, b, i), call |-> "set_usage_gCO2eq"]
  /\ UNCHANGED <<cacheVars, wsVars, entry, poll>>

EstSetTimestamp ==
  /\ \E ts \in {NoneV, Some(1700000000), Some(1700003600)} :
        est' = [obj |-> est_set_timestamp(est.obj, ts), call |-> "set_timestamp"]
  /\ UNCHANGED <<cacheVars, wsVars, entry, poll>>

\* ------------------------------------------- carbon intensity of the loop
\* sync_workspaces keeps the last carbon intensity it fetched in two module
\* globals, _CI_CACHE_VAL and _CI_CACHE_TS.
_CI_CACHE_TTL_S == 300
DEFAULT_CI_G_PER_KWH == 220

\* What GET /intensity can come to.  "raise": requests.get raised or timed
\* out, raise_for_status raised, or the body was not JSON.  "empty": a reply
\* without data rows.  "row": the first row's intensity, its actual and
\* forecast each null (Absent), a number, or something float() rejects.
CiRaise == [kind |-> "raise", actual |-> Absent, forecast |-> Absent]
CiReplies ==
  {CiRaise, [kind |-> "empty", actual |-> Absent, forecast |-> Absent]} \cup
  [kind : {"row"}, actual : {Absent, Num(0), Num(180), Garbage},
   forecast : {Absent, Num(200), Garbage}]

\* As _get_ci_gpkwh, but a value exactly one TTL old still counts as fresh.
_get_ci_gpkwh_inclusive(cache, t, reply) ==
  LET val  == IF reply.actual.present THEN reply.actual ELSE reply.forecast
      last == IF cache.val.none THEN DEFAULT_CI_G_PER_KWH ELSE cache.val.v
  IN  IF ~cache.val.none /\ (t - cache.ts) <= _CI_CACHE_TTL_S
        THEN [val |-> cache.val, ts |-> cache.ts, ret |-> cache.val.v, http |-> FALSE]
      ELSE IF reply.kind = "row" /\ val.present /\ val.ok
        THEN [val |-> Some(val.v), ts |-> t, ret |-> val.v, http |-> TRUE]
      ELSE [val |-> cache.val, ts |-> cache.ts, ret |-> last, http |-> TRUE]

\* _get_ci_gpkwh() called when the clock reads t with the globals holding
\* cache, the request (when one is made) coming to reply: the globals after
\* the call, the value returned, and whether a request was made.  Whatever
\* raises inside the try block ends in the fallback value.
_get_ci_gpkwh(cache, t, reply) ==
  LET val  == IF reply.actual.present THEN reply.actual ELSE reply.forecast
      last == IF cache.val.none THEN DEFAULT_CI_G_PER_KWH ELSE cache.val.v
  IN  IF ~cache.val.none /\ (t - cache.ts) < _CI_CACHE_TTL_S
        THEN [val |-> cache.val, ts |-> cache.ts, ret |-> cache.val.v, http |-> FALSE]
      ELSE IF reply.kind = "row" /\ val.present /\ val.ok
        THEN [val |-> Some(val.v), ts |-> t, ret |-> val.v, http |-> TRUE]
      ELSE [val |-> cache.val, ts |-> cache.ts, ret |-> last, http |-> TRUE]

\* poll: the globals (val, ts) and, of the last call, the globals it found
\* (before), the clock it read (at), the reply its request came to, what it
\* returned (ret) and whether it made a request (http).
PollInit ==
  poll = [val |-> NoneV, ts |-> 0, called |-> FALSE, before |-> [val |-> NoneV, ts |-> 0],
          at |-> 0, reply |-> CiRaise, ret |-> 0, http |-> FALSE]

\* One pass of the polling loop asks for the carbon intensity.
GetCi ==
  /\ \E reply \in CiReplies :
       \E res \in {_get_ci_gpkwh([val |-> poll.val, ts |-> poll.ts], now, reply)} :
         poll' = [val |-> res.val, ts |-> res.ts, called |-> TRUE,
                  before |-> [val |-> poll.val, ts |-> poll.ts], at |-> now,
                  reply |-> IF res.http THEN reply ELSE CiRaise,
                  ret |-> res.ret, http |-> res.http]
  /\ UNCHANGED <<cacheVars, wsVars, entry, est>>

\* The requests the model sends.
ApiInputs ==
  [range |-> RangeParams, source |-> SourceParams, force_refresh |-> BOOLEAN,
   overrides |-> {NoOverrides}, cache_only |-> {FALSE}]

CacheNext ==
  \/ Tick(MaxTicks, Ticks)
  \/ ApiStart("w1", ApiInputs)
  \/ ApiCompute("w1", {"matrix"})
  \/ ApiSave("w1", MaxRows, BOOLEAN)
  \/ ApiDone("w1")

Init == CacheInit /\ WsInit /\ EntryInit /\ EstInit /\ PollInit
Spec == Init /\ [][CacheNext]_vars

\* One web worker serving requests that ask for cache_only.
CacheOnlyInputs ==
  [range |-> {"", "Month"}, source |-> {"CLF"}, force_refresh |-> BOOLEAN,
   overrides |-> {NoOverrides}, cache_only |-> BOOLEAN]

CacheOnlyNext ==
  \/ Tick(MaxTicks, Ticks)
  \/ ApiStart("w1", CacheOnlyInputs)
  \/ ApiCompute("w1", {"raise", "nodata", "matrix"})
  \/ ApiSave("w1", MaxRows, BOOLEAN)
  \/ ApiDone("w1")

SpecCacheOnly == Init /\ [][CacheOnlyNext]_vars

\* Two web workers serving requests for one key, (clf, day, default spec),
\* the database up.
RaceInputs ==
  [range |-> {"day"}, source |-> {"clf"}, force_refresh |-> {FALSE},
   overrides |-> {NoOverrides}, cache_only |-> {FALSE}]

RaceNext ==
  \/ Tick(MaxTicks, {3600})
  \/ \E p \in ApiProcs : ApiStart(p, RaceInputs)
  \/ \E p \in ApiProcs : ApiCompute(p, {"raise", "matrix"})
  \/ \E p \in ApiProcs : ApiSave(p, MaxRows, {TRUE})
  \/ \E p \in ApiProcs : ApiDone(p)

SpecRace == Init /\ [][RaceNext]_vars

\* The refresh command running beside one web worker.
CmdInputs ==
  [sources |-> {<<"clf">>}, ranges |-> {<<"day">>},
   force |-> BOOLEAN, skip_fresh |-> BOOLEAN, overrides |-> {NoOverrides}]
CmdApiInputs ==
  [range |-> {"day", "Month"}, source |-> {"clf"}, force_refresh |-> BOOLEAN,
   overrides |-> {NoOverrides}, cache_only |-> {FALSE}]

CmdNext ==
  \/ ApiStart("w1", CmdApiInputs)
  \/ ApiCompute("w1", {"raise", "matrix"})
  \/ ApiSave("w1", MaxRows, BOOLEAN)
  \/ ApiDone("w1")
  \/ CmdStart(CmdInputs)
  \/ CmdCheck
  \/ CmdAggregate({"raise", "matrix"})
  \/ CmdCreate(MaxRows)
  \/ CmdFinish

SpecCmd == Init /\ [][CmdNext]_vars

\* One web worker, every way the backend and the insert can fail, and spec
\* overrides that make the totals negative.
FaultInputs ==
  [range |-> {"", "Month", "year"}, source |-> {"CLF", "other"}, force_refresh |-> BOOLEAN,
   overrides |-> OverrideParams, cache_only |-> {FALSE}]

FaultNext ==
  \/ Tick(MaxTicks, {86400})
  \/ ApiStart("w1", FaultInputs)
  \/ ApiCompute("w1", {"raise", "matrix"})
  \/ ApiSave("w1", FaultRows, BOOLEAN)
  \/ ApiDone("w1")

SpecFault == Init /\ [][FaultNext]_vars

\* One process feeding a Workspace with record_usage calls of any arguments.
WsInputs ==
  [duration_s |-> {-5, 0, 60}, energy_kwh |-> {-1, 0, 2},
   ci_g_per_kwh |-> {NoneV, Some(-50), Some(0), Some(300)}, idle |-> BOOLEAN]

WsNext ==
  \/ WsGet("sync1", BootTimes)
  \/ WsCreate("sync1")
  \/ WsMark("sync1")
  \/ WsRecord("sync1", WsInputs, MaxCalls)
  \/ WsRelease("sync1")

SpecWs == Init /\ [][WsNext]_vars

\* One process feeding samples that all carry an energy >= 0 and an intensity.
AvgInputs ==
  [duration_s |-> {60}, energy_kwh |-> {0, 1, 3},
   ci_g_per_kwh |-> {Some(100), Some(400)}, idle |-> BOOLEAN]

AvgNext ==
  \/ WsGet("sync1", BootTimes)
  \/ WsCreate("sync1")
  \/ WsMark("sync1")
  \/ WsRecord("sync1", AvgInputs, MaxSamples)
  \/ WsRelease("sync1")

SpecAvg == Init /\ [][AvgNext]_vars

\* Two processes feeding the same Workspace.
WsRaceInputs ==
  [duration_s |-> {60}, energy_kwh |-> {1, 3},
   ci_g_per_kwh |-> {Some(100), Some(400)}, idle |-> BOOLEAN]

WsRaceNext ==
  \/ \E w \in WsProcs : WsGet(w, BootTimes)
  \/ \E w \in WsProcs : WsCreate(w)
  \/ \E w \in WsProcs : WsMark(w)
  \/ \E w \in WsProcs : WsRecord(w, WsRaceInputs, MaxCalls)
  \/ \E w \in WsProcs : WsRelease(w)

SpecWsRace == Init /\ [][WsRaceNext]_vars

\* Two sync passes over one host, each with the boot time it read, the host
\* possibly restarted between the two reads.
StartInputs ==
  [duration_s |-> {60}, energy_kwh |-> {1}, ci_g_per_kwh |-> {NoneV}, idle |-> {FALSE}]

StartNext ==
  \/ \E w \in WsProcs : WsGet(w, RebootTimes)
  \/ \E w \in WsProcs : WsCreate(w)
  \/ \E w \in WsProcs : WsMark(w)
  \/ \E w \in WsProcs : WsRecord(w, StartInputs, MaxCalls)
  \/ \E w \in WsProcs : WsRelease(w)

SpecStart == Init /\ [][StartNext]_vars

\* One process feeding a Workspace while the clock runs, samples with and
\* without a carbon intensity.
SampleInputs ==
  [duration_s |-> {0, 60}, energy_kwh |-> {0, 2},
   ci_g_per_kwh |-> {NoneV, Some(0), Some(300)}, idle |-> BOOLEAN]

SampleNext ==
  \/ Tick(MaxTicks, {60})
  \/ WsGet("sync1", BootTimes)
  \/ WsCreate("sync1")
  \/ WsMark("sync1")
  \/ WsRecord("sync1", SampleInputs, MaxCalls)
  \/ WsRelease("sync1")

SpecSample == Init /\ [][SampleNext]_vars

\* One web worker computing series of every range, live and synthetic, while
\* the clock runs.
BinInputs ==
  [range |-> {"", "Month", "year"}, source |-> {"CLF"}, force_refresh |-> {TRUE},
   overrides |-> {NoOverrides}, cache_only |-> {FALSE}]

BinNext ==
  \/ Tick(MaxTicks, {86400})
  \/ ApiStart("w1", BinInputs)
  \/ ApiCompute("w1", {"raise", "matrix"})
  \/ ApiSave("w1", FaultRows, {TRUE})
  \/ ApiDone("w1")

SpecBins == Init /\ [][BinNext]_vars

\* One web worker recomputing (clf, day) against a backend that raises,
\* answers without data.result, or answers a matrix holding an item that is
\* not a [timestamp, value] pair.
MalformedInputs ==
  [range |-> {"day"}, source |-> {"clf"}, force_refresh |-> {TRUE},
   overrides |-> {NoOverrides}, cache_only |-> {FALSE}]

MalformedNext ==
  \/ Tick(MaxTicks, {3600})
  \/ ApiStart("w1", MalformedInputs)
  \/ ApiCompute("w1", {"raise", "nodata", "matrix"})
  \/ ApiSave("w1", MaxRows, {TRUE})
  \/ ApiDone("w1")

SpecMalformed == Init /\ [][MalformedNext]_vars

\* One web worker and the refresh command working on (clf, day) under specs
\* built in every way the program builds them: the defaults, a query or
\* command-line override that restates a default, and one that changes a
\* field.
KeyApiInputs ==
  [range |-> {"day"}, source |-> {"clf"}, force_refresh |-> {FALSE},
   overrides |-> {NoOverrides, SameOverrides, TdpOverrides}, cache_only |-> {FALSE}]
KeyCmdInputs ==
  [sources |-> {<<"clf">>}, ranges |-> {<<"day">>},
   force |-> {TRUE}, skip_fresh |-> {FALSE}, overrides |-> {NoOverrides, TdpOverrides}]

KeyNext ==
  \/ ApiStart("w1", KeyApiInputs)
  \/ ApiCompute("w1", {"raise", "matrix"})
  \/ ApiSave("w1", MaxRows, {TRUE})
  \/ ApiDone("w1")
  \/ CmdStart(KeyCmdInputs)
  \/ CmdCheck
  \/ CmdAggregate({"matrix"})
  \/ CmdCreate(MaxRows)
  \/ CmdFinish

SpecKey == Init /\ [][KeyNext]_vars

\* The refresh command alone, with and without --force and --skip-fresh and
\* under two specs, while the clock runs.
SkipNext ==
  \/ Tick(MaxTicks, {3600})
  \/ CmdStart([sources |-> {<<"clf">>}, ranges |-> {<<"day">>},
               force |-> BOOLEAN, skip_fresh |-> BOOLEAN, overrides |-> {NoOverrides, TdpOverrides}])
  \/ CmdCheck
  \/ CmdAggregate({"raise", "matrix"})
  \/ CmdCreate(MaxRows)
  \/ CmdFinish

SpecSkip == Init /\ [][SkipNext]_vars

\* The setters of one WorkspaceUsageEntry, called in any order, any number of
\* times.
EntryNext ==
  \/ EntrySetTimestamp
  \/ EntrySetUserInfo
  \/ EntrySetCpuSecondsTotal
  \/ EntrySetUsageKwh
  \/ EntrySetUsageGco2eq
  \/ EntrySetCarbonEquivalencies
  \/ EntrySetCpuTdp
SpecEntry == Init /\ [][EntryNext]_vars

\* The setters of one EstimatedUsageEntry, called in any order, any number of
\* times.
EstNext ==
  \/ EstSetCpuSecondsTotal
  \/ EstSetUsageKwh
  \/ EstSetUsageGCO2eq
  \/ EstSetTimestamp
SpecEst == Init /\ [][EstNext]_vars

\* One web worker whose aggregations meet every kind of reply, on every
\* range.
TierNext ==
  \/ ApiStart("w1", [range |-> {"", "Month", "year"}, source |-> {"CLF"}, force_refresh |-> {TRUE},
                     overrides |-> {NoOverrides}, cache_only |-> {FALSE}])
  \/ ApiCompute("w1", {"raise", "nodata", "badseries", "matrix"})
  \/ ApiSave("w1", FaultRows, {TRUE})
  \/ ApiDone("w1")
SpecTiers == Init /\ [][TierNext]_vars

\* Requests and refresh runs that name sources without a backend mapping,
\* next to ones that have it.
UnknownNext ==
  \/ ApiStart("w1", [range |-> {""}, source |-> {"CLF", "other", ""}, force_refresh |-> {FALSE},
                     overrides |-> {NoOverrides}, cache_only |-> {FALSE}])
  \/ ApiCompute("w1", {"raise", "matrix"})
  \/ ApiSave("w1", FaultRows, {TRUE})
  \/ ApiDone("w1")
  \/ CmdStart([sources |-> {<<"other">>, <<"clf", "other">>}, ranges |-> {<<"day">>},
               force |-> {FALSE}, skip_fresh |-> BOOLEAN, overrides |-> {NoOverrides}])
  \/ CmdCheck
  \/ CmdAggregate({"raise", "matrix"})
  \/ CmdCreate(FaultRows)
  \/ CmdFinish
SpecUnknown == Init /\ [][UnknownNext]_vars

\* The polling loop asking for the carbon intensity while the clock moves by
\* just under and exactly one cache lifetime.
PollNext ==
  \/ Tick(MaxTicks, {299, 300})
  \/ GetCi
SpecPoll == Init /\ [][PollNext]_vars

\* One web worker aggregating while the clock moves on by a second.
WindowNext ==
  \/ Tick(MaxTicks, {1})
  \/ ApiStart("w1", [range |-> {"", "Month", "year"}, source |-> {"CLF"}, force_refresh |-> BOOLEAN,
                     overrides |-> {NoOverrides}, cache_only |-> {FALSE}])
  \/ ApiCompute("w1", {"matrix", "raise"})
  \/ ApiSave("w1", MaxRows, {TRUE})
  \/ ApiDone("w1")
SpecWindow == Init /\ [][WindowNext]_vars

\* One web worker whose aggregations fail or succeed, asking again half a
\* lifetime and a whole lifetime of a day row later.
RecoverNext ==
  \/ Tick(MaxTicks, {1800, 3600})
  \/ ApiStart("w1", [range |-> {"", "Month"}, source |-> {"CLF"}, force_refresh |-> BOOLEAN,
                     overrides |-> {NoOverrides}, cache_only |-> {FALSE}])
  \/ ApiCompute("w1", {"raise", "matrix"})
  \/ ApiSave("w1", MaxRows, BOOLEAN)
  \/ ApiDone("w1")
SpecRecover == Init /\ [][RecoverNext]_vars

\* ================================================================ properties
\* C1 (Spec).  Cache freshness: a finished request for a known source and a
\* valid range whose key had rows when it read the cache has recomputed (its
\* response comes from a computation, it queried the backend and it went
\* through the insert of a row of its key) exactly when force_refresh was set
\* or the newest of those rows was ttl or more seconds old, ttl being 3600 s
\* for day and 86400 s for month and year; otherwise the response carries
\* that row's labels, kwh and total_kwh, no query was issued and no row was
\* inserted.
CacheFreshness ==
  \A p \in ApiProcs :
    LET r == api[p]
        K == {i \in 1..r.readLen : /\ rows[i].source = r.source
                                   /\ rows[i].range_key = r.range_key
                                   /\ rows[i].spec_hash = r.shash}
    IN  (/\ r.pc = "done"
         /\ r.range_key \in {"day", "month", "year"}
         /\ r.source \in {"clf", "isis", "diamond"}
         /\ K # {})
        => LET newest == CHOOSE i \in K :
                           \A j \in K : ~StampLess(rows[i].updated_at, rows[j].updated_at)
               D      == r.readAt - rows[newest].updated_at[1]
               ttl    == IF r.range_key = "day" THEN 3600 ELSE 86400
               recomputed ==
                 /\ r.resp.status = 200
                 /\ r.resp.from = "compute"
                 /\ r.qlog # <<>>
                 /\ \/ r.save_err
                    \/ /\ r.saved > r.readLen
                       /\ r.saved <= Len(rows)
                       /\ rows[r.saved].source = r.source
                       /\ rows[r.saved].range_key = r.range_key
                       /\ rows[r.saved].spec_hash = r.shash
                       /\ rows[r.saved].kwh = r.resp.kwh
               served ==
                 /\ r.resp.status = 200
                 /\ r.resp.from = "db"
                 /\ r.resp.labels = rows[newest].labels
                 /\ r.resp.kwh = rows[newest].kwh
                 /\ r.resp.total_kwh = rows[newest].total_kwh
                 /\ r.qlog = <<>>
                 /\ r.saved = 0
                 /\ ~r.save_err
           IN  /\ recomputed <=> (r.force_refresh \/ D >= ttl)
               /\ ~recomputed => served

\* C1 witness: an unforced day request finds the newest row of its key
\* exactly 3600 s old, recomputes and inserts a second row.
CacheFreshnessWitness ==
  \E p \in ApiProcs :
    /\ api[p].pc = "done"
    /\ ~api[p].force_refresh
    /\ api[p].range_key = "day"
    /\ api[p].source = "clf"
    /\ api[p].row = 1
    /\ api[p].readAt - rows[1].updated_at[1] = 3600
    /\ api[p].saved = 2
    /\ api[p].resp.from = "compute"

\* C2 (SpecFault).  Fallback on every backend failure: every finished request
\* with a valid range got status 200, and one whose aggregation failed (the
\* last query it issued raised: timeout, connection error, non-success
\* status, unparseable body) carries the labels and kwh of
\* _make_series(range_key, spec), 24, 30 or 12 bins.
FallbackOnBackendFailure ==
  \A p \in ApiProcs :
    LET r == api[p] IN
    (r.pc = "done" /\ r.range_key \in {"day", "month", "year"})
    => /\ r.resp.status = 200
       /\ (r.qlog # <<>> /\ r.qlog[Len(r.qlog)].out = "raise")
          => LET spec == ApiSpec(r.GET.overrides)
                 syn  == _make_series(r.range_key, spec)
                 bins == CASE r.range_key = "day"   -> 24
                           [] r.range_key = "month" -> 30
                           [] r.range_key = "year"  -> 12
             IN  /\ r.resp.from = "compute"
                 /\ r.resp.labels = syn.labels
                 /\ r.resp.kwh = syn.kwh
                 /\ r.resp.total_kwh = SumSeq(syn.kwh)
                 /\ Len(r.resp.kwh) = bins
                 /\ Len(r.resp.labels) = bins

\* C2 witness: the CPU queries answered and the RAM query raised, and the
\* request finished with the 30 synthetic bins of a month.
FallbackOnBackendFailureWitness ==
  \E p \in ApiProcs :
    /\ api[p].pc = "done"
    /\ api[p].range_key = "month"
    /\ Len(api[p].qlog) = 2
    /\ api[p].qlog[1].out = "matrix"
    /\ api[p].qlog[2].out = "raise"
    /\ Len(api[p].resp.kwh) = 30
    /\ api[p].resp.total_kwh > 0

\* C3 (SpecCmd).  Cache rows are append-only: no step removes or changes a
\* row of the table, and every recomputation that gets to store its result,
\* by project_usage_api or by refresh_energy_cache, adds exactly one row at
\* the end, a row of its key holding the series it computed.
AppendOnly ==
  [][ /\ Len(rows') >= Len(rows)
      /\ \A i \in 1..Len(rows) : rows'[i] = rows[i]
      /\ \A p \in ApiProcs :
           (/\ api[p].pc = "save"
            /\ api'[p].pc = "done"
            /\ api[p].source \in {"clf", "isis", "diamond"}
            /\ ~api'[p].save_err)
           => /\ Len(rows') = Len(rows) + 1
              /\ rows'[Len(rows')].source = api[p].source
              /\ rows'[Len(rows')].range_key = api[p].range_key
              /\ rows'[Len(rows')].spec_hash = api[p].shash
              /\ rows'[Len(rows')].kwh = api[p].kwh
      /\ (cmd.pc = "create" /\ cmd'.outcome = "ok")
           => /\ Len(rows') = Len(rows) + 1
              /\ rows'[Len(rows')].source = cmd.tasks[cmd.i][1]
              /\ rows'[Len(rows')].range_key = cmd.tasks[cmd.i][2]
              /\ rows'[Len(rows')].spec_hash = cmd.shash
              /\ rows'[Len(rows')].kwh = cmd.kwh
    ]_vars

\* C3 witness: one key holds two rows, one written by the refresh command
\* and one by a web worker.
AppendOnlyWitness ==
  /\ Len(rows) = 2
  /\ rows[1].source = rows[2].source
  /\ rows[1].range_key = rows[2].range_key
  /\ rows[1].spec_hash = rows[2].spec_hash
  /\ {creator[1], creator[2]} = {"cmd", "w1"}

\* C4 (SpecCacheOnly).  Cache-only mode: a finished request that asked for cache_only
\* and whose key had no row when it read the cache has failed (no 200
\* response) without computing: no backend query, no series, no row.
CacheOnlyMiss ==
  \A p \in ApiProcs :
    LET r == api[p]
        K == {i \in 1..r.readLen : /\ rows[i].source = r.source
                                   /\ rows[i].range_key = r.range_key
                                   /\ rows[i].spec_hash = r.shash}
    IN  (/\ r.pc = "done"
         /\ r.range_key \in {"day", "month", "year"}
         /\ r.source \in {"clf", "isis", "diamond"}
         /\ r.GET.cache_only
         /\ K = {})
        => /\ r.resp.status # 200
           /\ r.qlog = <<>>
           /\ r.resp.kwh = <<>>
           /\ r.saved = 0

\* C5 (SpecFault).  Persistence failures are swallowed: a save step whose
\* insert fails leaves the table as it was and still answers 200 with the
\* labels, kwh and total_kwh just computed; an insert of a row with a
\* negative total_kwh always fails so.
PersistenceFailuresSwallowed ==
  [][ \A p \in ApiProcs :
        (api[p].pc = "save" /\ api[p].source \in {"clf", "isis", "diamond"})
        => /\ api[p].total_kwh < 0 => api'[p].pc = "save" \/ api'[p].save_err
           /\ api'[p].save_err
              => /\ rows' = rows
                 /\ api'[p].pc = "done"
                 /\ api'[p].saved = 0
                 /\ api'[p].resp.status = 200
                 /\ api'[p].resp.from = "compute"
                 /\ api'[p].resp.labels = api[p].labels
                 /\ api'[p].resp.kwh = api[p].kwh
                 /\ api'[p].resp.total_kwh = api[p].total_kwh
    ]_vars

\* C5 witness: a request whose total is negative was answered after its
\* insert was refused, beside a row stored earlier.
PersistenceFailuresSwallowedWitness ==
  \E p \in ApiProcs :
    /\ api[p].pc = "done"
    /\ api[p].save_err
    /\ api[p].total_kwh < 0
    /\ api[p].resp.total_kwh = api[p].total_kwh
    /\ Len(rows) >= 1

\* C6 (SpecAvg).  Running-average correctness: a Workspace fed only samples
\* with an energy >= 0 and an intensity, of positive total energy, holds
\* avg_ci_g_per_kwh = sum(e_i * c_i) / sum(e_i), in the stored row and in the
\* object of the process feeding it.
RunningAverageCorrect ==
  /\ \A i \in 1..Len(wsRows) :
       (wsFed[i].every /\ wsFed[i].sumE > 0)
       => wsRows[i].avg_ci_g_per_kwh = Some(Frac(wsFed[i].sumEC, wsFed[i].sumE))
  /\ \A w \in WsProcs :
       (wr[w].pc = "loaded" /\ wsFed[wr[w].id].every /\ wsFed[wr[w].id].sumE > 0)
       => wr[w].obj.avg_ci_g_per_kwh
            = Some(Frac(wsFed[wr[w].id].sumEC, wsFed[wr[w].id].sumE))

\* C6 witness: three samples of different intensities, the first without
\* energy, and an average strictly between the intensities.
RunningAverageCorrectWitness ==
  \E i \in 1..Len(wsRows) :
    /\ wsFed[i].calls = 3
    /\ wsFed[i].sumE = 4
    /\ wsFed[i].sumEC = 1300
    /\ wsRows[i].idle_kwh = 0
    /\ wsRows[i].avg_ci_g_per_kwh = Some(<<325, 1>>)

\* C7 (SpecWs).  Accumulator totals are monotone and non-negative: after
\* every step runtime_seconds, total_kwh, idle_kwh, total_kg and idle_kg of
\* every stored row and of the object a process holds are >= 0, and no
\* record_usage call, whatever its arguments, leaves one of them smaller
\* than it was.
TotalsMonotoneNonNegative ==
  [][ LET Totals(o) == <<o.runtime_seconds, o.total_kwh, o.idle_kwh, o.total_kg, o.idle_kg>>
      IN  /\ \A i \in 1..Len(wsRows') :
               /\ \A k \in 1..5 : Totals(wsRows'[i])[k] >= 0
               /\ i <= Len(wsRows)
                    => \A k \in 1..5 : Totals(wsRows'[i])[k] >= Totals(wsRows[i])[k]
          /\ \A w \in WsProcs :
               wr'[w].pc = "loaded"
               => /\ \A k \in 1..5 : Totals(wr'[w].obj)[k] >= 0
                  /\ wr[w].pc = "loaded"
                       => \A k \in 1..5 : Totals(wr'[w].obj)[k] >= Totals(wr[w].obj)[k]
    ]_vars

\* C7 witness: a row that took a call with a negative energy or duration
\* and a call that added energy.
TotalsMonotoneNonNegativeWitness ==
  \E i \in 1..Len(wsRows) :
    /\ wsFed[i].neg
    /\ wsFed[i].calls = 2
    /\ wsRows[i].total_kwh = 2
    /\ wsRows[i].runtime_seconds = 0

\* C8 (SpecWsRace).  Accumulator updates are serialized: once no process
\* holds a Workspace object any more, every stored row holds what the
\* record_usage calls made on it give when applied one after the other.
UpdatesSerialized ==
  (\A w \in WsProcs : wr[w].pc # "loaded")
  => \A i \in 1..Len(wsRows) :
       /\ wsRows[i].runtime_seconds = wsFed[i].serial.runtime_seconds
       /\ wsRows[i].total_kwh = wsFed[i].serial.total_kwh
       /\ wsRows[i].idle_kwh = wsFed[i].serial.idle_kwh
       /\ wsRows[i].total_kg = wsFed[i].serial.total_kg
       /\ wsRows[i].idle_kg = wsFed[i].serial.idle_kg
       /\ wsRows[i].avg_ci_g_per_kwh = wsFed[i].serial.avg_ci_g_per_kwh

\* C9 (SpecCmd).  Readers see the newest row: the row a project_usage_api
\* request or the refresh command's freshness check got from its cache read
\* is, among the rows of its key the table held at the read, the one whose
\* updated_at is greater than every other's, and none only when the key had
\* no row; a response served from the cache carries that row's series.
ReadersSeeNewest ==
  /\ \A p \in ApiProcs :
       LET r == api[p]
           K == {i \in 1..r.readLen : /\ rows[i].source = r.source
                                      /\ rows[i].range_key = r.range_key
                                      /\ rows[i].spec_hash = r.shash}
       IN  (/\ r.pc \in {"compute", "save", "done"}
            /\ r.range_key \in {"day", "month", "year"}
            /\ r.source \in {"clf", "isis", "diamond"}
            /\ ~r.force_refresh)
           => /\ K = {} <=> r.row = 0
              /\ r.row # 0
                   => /\ r.row \in K
                      /\ \A j \in K \ {r.row} :
                           StampLess(rows[j].updated_at, rows[r.row].updated_at)
              /\ (r.pc = "done" /\ r.resp.from = "db")
                   => /\ r.row # 0
                      /\ r.resp.labels = rows[r.row].labels
                      /\ r.resp.kwh = rows[r.row].kwh
                      /\ r.resp.total_kwh = rows[r.row].total_kwh
  /\ cmd.checked
       => LET K == {i \in 1..cmd.readLen : /\ rows[i].source = cmd.key[1]
                                           /\ rows[i].range_key = cmd.key[2]
                                           /\ rows[i].spec_hash = cmd.shash}
          IN  /\ K = {} <=> cmd.latest = 0
              /\ cmd.latest # 0
                   => /\ cmd.latest \in K
                      /\ \A j \in K \ {cmd.latest} :
                           StampLess(rows[j].updated_at, rows[cmd.latest].updated_at)

\* C9 witness: a request was served the second of two rows of its key, the
\* rows written by different processes, while the command's check has read
\* the same key.
ReadersSeeNewestWitness ==
  \E p \in ApiProcs :
    /\ api[p].pc = "done"
    /\ api[p].resp.from = "db"
    /\ api[p].readLen = 2
    /\ api[p].row = 2
    /\ rows[1].range_key = rows[2].range_key
    /\ creator[1] # creator[2]
    /\ cmd.checked
    /\ cmd.latest # 0

\* C10 (SpecRace).  No single-flight guard: a request that found no fresh
\* row can always go on to compute and to insert, wherever the other worker
\* stands; a finished recomputation has queried the backend itself and has
\* inserted a row of its own holding its own series, so two of them leave
\* two rows; and a cache read gets the row of the key written last.
NoSingleFlight ==
  /\ \A p \in ApiProcs :
       /\ api[p].pc = "compute" => ENABLED ApiCompute(p, {"raise", "matrix"})
       /\ (api[p].pc = "save" /\ Len(rows) < MaxRows) => ENABLED ApiSave(p, MaxRows, {TRUE})
       /\ (api[p].pc = "done" /\ api[p].resp.from = "compute")
            => /\ api[p].qlog # <<>>
               /\ api[p].saved # 0
               /\ api[p].saved <= Len(rows)
               /\ api[p].saved > api[p].readLen
               /\ creator[api[p].saved] = p
               /\ rows[api[p].saved].kwh = api[p].kwh
               /\ api[p].resp.kwh = api[p].kwh
       /\ api[p].row # 0
            => \A j \in 1..api[p].readLen :
                 (/\ rows[j].source = api[p].source
                  /\ rows[j].range_key = api[p].range_key
                  /\ rows[j].spec_hash = api[p].shash) => j <= api[p].row
  /\ \A p \in ApiProcs, q \in ApiProcs :
       (/\ p # q
        /\ api[p].pc = "done" /\ api[p].saved # 0
        /\ api[q].pc = "done" /\ api[q].saved # 0)
       => api[p].saved # api[q].saved

\* C10 witness: both workers found the table empty, and both have finished
\* with a row each for the one key.
NoSingleFlightWitness ==
  /\ api["w1"].pc = "done" /\ api["w2"].pc = "done"
  /\ api["w1"].readLen = 0 /\ api["w2"].readLen = 0
  /\ api["w1"].saved # 0 /\ api["w2"].saved # 0
  /\ Len(rows) = 2
  /\ rows[1].spec_hash = rows[2].spec_hash
  /\ rows[1].range_key = rows[2].range_key
  /\ {creator[1], creator[2]} = {"w1", "w2"}

\* C11 (SpecKey).  Hash determinism: of any two specs the program has built
\* (by a request from the defaults and its query overrides, by the refresh
\* run from the defaults and its command-line overrides, or stored with a
\* row), the digests _spec_hash gave them are equal when the six fields have
\* the same values and differ when some field differs.
HashDeterminism ==
  LET built == {<<api[p].spec, api[p].shash>> :
                   p \in {q \in ApiProcs : api[q].pc # "idle" /\ api[q].range_key \in ValidRanges}}
               \cup (IF cmd.pc # "idle" THEN {<<cmd.spec, cmd.shash>>} ELSE {})
               \cup {<<rows[i].spec_json, rows[i].spec_hash>> : i \in 1..Len(rows)}
      same(a, b) == \A i \in 1..6 : a[SpecKeys[i]].v = b[SpecKeys[i]].v
  IN  \A x, y \in built : same(x[1], y[1]) <=> (x[2] = y[2])

\* C12 (SpecKey).  Cache isolation by key: a response served from the cache
\* carries the series of a row whose source, range_key and spec_hash are the
\* request's, and that row was computed and stored under a spec whose six
\* fields have the values of the request's spec, whatever requests and
\* refresh runs came before.
CacheIsolation ==
  \A p \in ApiProcs :
    LET r == api[p]
    IN  (r.pc = "done" /\ r.resp.status = 200 /\ r.resp.from = "db") =>
          /\ r.row \in 1..Len(rows)
          /\ rows[r.row].source = r.source
          /\ rows[r.row].range_key = r.range_key
          /\ rows[r.row].spec_hash = r.shash
          /\ \A i \in 1..6 : rows[r.row].spec_json[SpecKeys[i]].v = r.spec[SpecKeys[i]].v
          /\ r.resp.labels = rows[r.row].labels
          /\ r.resp.kwh = rows[r.row].kwh
          /\ r.resp.total_kwh = rows[r.row].total_kwh

\* A request overriding cpu_tdp_w is served from the cache while the table
\* also holds a row of its source and range stored under other field values.
CacheIsolationWitness ==
  \E p \in ApiProcs :
    /\ api[p].pc = "done" /\ api[p].resp.status = 200 /\ api[p].resp.from = "db"
    /\ api[p].GET.overrides = TdpOverrides
    /\ \E i \in 1..Len(rows) :
         /\ rows[i].source = api[p].source /\ rows[i].range_key = api[p].range_key
         /\ rows[i].spec_json.cpu_tdp_w.v # api[p].spec.cpu_tdp_w.v
         /\ rows[i].kwh # api[p].resp.kwh

\* C13 (SpecStart).  mark_started is idempotent: once the started_at of a
\* Workspace row is non-null, no later mark_started call and no later step of
\* a sync pass changes it; a row's started_at goes from null to a value at
\* most once.
MarkStartedOnce ==
  [][\A i \in 1..Len(wsRows) :
       ~wsRows[i].started_at.none => wsRows'[i].started_at = wsRows[i].started_at]_vars

\* C14 (SpecSample), as stated.  Latest-sample tracking: after every
\* record_usage call the object's last_ci_g_per_kwh equals the ci argument of
\* that call and its last_sampled_at equals the time of that call.
LatestSampleTracked ==
  \A w \in WsProcs :
    (wr[w].pc = "loaded" /\ wr[w].call.made) =>
       /\ wr[w].obj.last_ci_g_per_kwh = wr[w].call.ci
       /\ wr[w].obj.last_sampled_at = Some(wr[w].call.at)

\* C14 (SpecSample), amended.  After every record_usage call that supplies
\* ci_g_per_kwh, last_ci_g_per_kwh equals the ci argument of that call and
\* last_sampled_at equals the time of that call, in the object and in the
\* stored row; a call without ci_g_per_kwh leaves both fields of the object as
\* they were.
LatestSampleTrackedWithCi ==
  [][\A w \in WsProcs :
       (wr[w].pc = "loaded" /\ wr'[w].pc = "loaded" /\ wsFed' # wsFed) =>
          LET c == wr'[w].call
              o == wr'[w].obj
          IN  /\ c.made /\ c.at = now
              /\ IF c.ci.none
                   THEN /\ o.last_ci_g_per_kwh = wr[w].obj.last_ci_g_per_kwh
                        /\ o.last_sampled_at = wr[w].obj.last_sampled_at
                 ELSE /\ o.last_ci_g_per_kwh = c.ci
                      /\ o.last_sampled_at = Some(c.at)
                      /\ wsRows'[wr[w].id].last_ci_g_per_kwh = c.ci
                      /\ wsRows'[wr[w].id].last_sampled_at = Some(c.at)]_vars

\* A call without an intensity has followed, a minute later, a call that
\* supplied one: the object still shows the earlier call's intensity and time.
LatestSampleTrackedWithCiWitness ==
  \E w \in WsProcs :
    /\ wr[w].pc = "loaded" /\ wr[w].call.made /\ wr[w].call.ci.none
    /\ ~wr[w].obj.last_sampled_at.none
    /\ wr[w].obj.last_sampled_at.v < wr[w].call.at
    /\ wr[w].obj.last_ci_g_per_kwh = Some(300)

SeriesNonNegative ==
  \A p \in ApiProcs :
    (api[p].pc = "done" /\ api[p].resp.status = 200) =>
       /\ \A i \in 1..Len(api[p].resp.kwh) : api[p].resp.kwh[i] >= 0
       /\ api[p].resp.total_kwh >= 0

\* C17 (SpecBins).  Bin consistency: every series project_usage_api has
\* computed (live or synthetic), every response carrying one and every row
\* stored has as many labels as kwh values, 24 for day, 30 for month and 12
\* for year; and the bin function of the window _bin_setup opens for a
\* request about to compute maps the timestamps of [start, end) to indices in
\* [0, bin_count).  The timestamps tried are the first, the second and the
\* last second of every step of the window.
BinConsistency ==
  LET count == [r \in ValidRanges |->
                  CASE r = "day" -> 24 [] r = "month" -> 30 [] r = "year" -> 12]
  IN  /\ \A p \in ApiProcs :
           /\ api[p].pc \in {"save", "done"} /\ api[p].range_key \in ValidRanges =>
                /\ Len(api[p].labels) = count[api[p].range_key]
                /\ Len(api[p].kwh) = count[api[p].range_key]
           /\ api[p].pc = "done" /\ api[p].resp.status = 200 =>
                /\ Len(api[p].resp.labels) = count[api[p].resp.range]
                /\ Len(api[p].resp.kwh) = count[api[p].resp.range]
      /\ \A i \in 1..Len(rows) :
           /\ Len(rows[i].labels) = count[rows[i].range_key]
           /\ Len(rows[i].kwh) = count[rows[i].range_key]
      /\ \A r \in {api[p].range_key : p \in {q \in ApiProcs : api[q].pc = "compute"}} :
           LET b == _bin_setup(r, now)
           IN  /\ b.bins = count[r]
               /\ Len(b.labels) = b.bins
               /\ \A k \in 0..(((b.end - b.start) \div b.step_s) - 1) :
                    \A d \in {0, 1, b.step_s - 1} :
                       LET ts == b.start + k * b.step_s + d
                       IN  /\ b.start <= ts /\ ts < b.end
                           /\ ts_to_bin(r, b.start, ts) \in 0..(b.bins - 1)

\* A stored live year series of 12 bins whose window reaches from one
\* November to the next, and a synthetic month series of 30 bins just
\* computed.
BinConsistencyWitness ==
  /\ \E i \in 1..Len(rows) :
       /\ rows[i].range_key = "year" /\ Len(rows[i].kwh) = 12
       /\ SumSeq(rows[i].kwh) > 0
       /\ ts_to_bin("year", rows[i].start_unix, rows[i].start_unix) = 10
       /\ ts_to_bin("year", rows[i].start_unix, rows[i].end_unix - 1) = 10
  /\ \E p \in ApiProcs :
       /\ api[p].pc = "save" /\ ~api[p].ok
       /\ api[p].range_key = "month" /\ Len(api[p].kwh) = 30

InvalidRangeFailsFast ==
  [][\A p \in ApiProcs :
       /\ (api[p].pc = "idle" /\ api'[p].pc # "idle"
             /\ api'[p].range_key \notin {"day", "month", "year"}) =>
            /\ api'[p].pc = "done"
            /\ api'[p].resp = HttpResponseBadRequest
            /\ api'[p].resp.status = 400
            /\ api'[p].readAt = 0 /\ api'[p].readLen = 0 /\ api'[p].row = 0
            /\ api'[p].spec = <<>> /\ api'[p].shash = <<>>
            /\ api'[p].qlog = <<>>
            /\ api'[p].labels = <<>> /\ api'[p].kwh = <<>>
            /\ api'[p].saved = 0 /\ ~api'[p].save_err
            /\ rows' = rows /\ stamps' = stamps
       /\ (api[p].pc # "idle" /\ api[p].range_key \notin {"day", "month", "year"}) =>
            /\ api[p].pc = "done"
            /\ api'[p] \in {api[p], IdleApi}
            /\ rows' = rows]_vars

\* range=week, no force_refresh, answered 400 while the table holds a row a
\* lookup would have found.
InvalidRangeFailsFastWitness ==
  \E p \in ApiProcs :
    /\ api[p].pc = "done" /\ api[p].resp.status = 400
    /\ api[p].GET.range = "week" /\ ~api[p].GET.force_refresh
    /\ \E i \in 1..Len(rows) : rows[i].source = api[p].source

\* C20 (SpecMalformed).  Malformed responses trigger the fallback: a request
\* one of whose backend queries was answered with a payload that does not
\* parse into the matrix shape (a JSON object without data.result, such as an
\* error status inside an HTTP-success reply, or a matrix holding an item
\* that is not a [timestamp, value] pair) treats the aggregation as failed
\* and carries the synthetic series, not one built from that payload.
MalformedTriggersFallback ==
  \A p \in ApiProcs :
    LET r == api[p]
        malformed(e) ==
          \E o \in QueryOutcomes(24) :
            /\ o.kind = e.out
            /\ o.kind = "nodata" \/ \E i \in 1..Len(o.pts) : ~o.pts[i].ok
    IN  (/\ r.pc \in {"save", "done"} /\ r.qlog # <<>>
         /\ \E k \in 1..Len(r.qlog) : malformed(r.qlog[k])) =>
           /\ ~r.ok
           /\ r.labels = _make_series(r.range_key, r.spec).labels
           /\ r.kwh = _make_series(r.range_key, r.spec).kwh

\* C21 (SpecSkip).  refresh_energy_cache skip rule: a (source, range) task is
\* skipped exactly when --skip-fresh is given, --force is not, and the newest
\* row of (source, range, spec_hash) is younger than the range's TTL; in
\* every other case the aggregation is attempted; an aggregation that
\* succeeds goes on to the insert, and the insert that goes through adds a
\* new row whatever rows the key already has, so with --force a fresh row is
\* written whenever the aggregation succeeds and the insert is not refused.
SkipRule ==
  [][ /\ (cmd.pc = "check" /\ cmd' # cmd) =>
           LET source == cmd.tasks[cmd.i][1]
               range  == cmd.tasks[cmd.i][2]
               K      == {i \in 1..Len(rows) : /\ rows[i].source = source
                                               /\ rows[i].range_key = range
                                               /\ rows[i].spec_hash = cmd.shash}
               newest == CHOOSE i \in K :
                           \A j \in K : j = i \/ StampLess(rows[j].updated_at, rows[i].updated_at)
               ttl    == IF range = "day" THEN 3600 ELSE 86400
               skip   == /\ cmd.skip_fresh /\ ~cmd.force /\ K # {}
                         /\ now - rows[newest].updated_at[1] < ttl
           IN  /\ skip <=> cmd'.outcome = "skip"
               /\ skip => cmd'.pc \in {"check", "finished"} /\ cmd'.qlog = <<>>
               /\ ~skip => cmd'.pc = "aggregate"
               /\ rows' = rows
      /\ (cmd.pc = "aggregate" /\ cmd' # cmd) =>
           /\ cmd'.qlog # <<>>
           /\ cmd'.pc = "create" <=> cmd'.qlog[Len(cmd'.qlog)].out # "raise"
           /\ cmd'.pc # "create" => cmd'.outcome = "fail"
           /\ rows' = rows
      /\ (cmd.pc = "create" /\ cmd' # cmd) =>
           \/ /\ cmd'.outcome = "ok"
              /\ Len(rows') = Len(rows) + 1
              /\ rows'[Len(rows')].spec_hash = cmd.shash
              /\ rows'[Len(rows')].kwh = cmd.kwh
              /\ rows'[Len(rows')].created_at[1] = now
           \/ cmd'.outcome = "fail" /\ rows' = rows
    ]_vars

\* --skip-fresh without --force, the key's newest row exactly one TTL old: the
\* task is not skipped.
SkipRuleWitness ==
  /\ cmd.pc = "aggregate" /\ cmd.skip_fresh /\ ~cmd.force
  /\ cmd.latest # 0
  /\ now - rows[cmd.latest].updated_at[1] = 3600

\* C22 (SpecEntry).  The status of a WorkspaceUsageEntry is a function of the
\* data it holds, whatever setters were called and in whatever order:
\* "complete" iff CPU seconds, kWh, gCO2eq, user info and timestamp are all
\* set; "processed" iff CPU seconds, kWh and gCO2eq are set and user info or
\* timestamp is missing; "downloaded" iff CPU seconds are set and kWh or
\* gCO2eq is missing; "initialized" otherwise.  And no setter call moves the
\* status backwards in the order initialized, downloaded, processed,
\* complete.
EntryCpuSet == ~entry.busy_cpu_seconds_total.none /\ ~entry.idle_cpu_seconds_total.none
EntryKwhSet == ~entry.busy_usage_kwh.none /\ ~entry.idle_usage_kwh.none
EntryCarbonSet == ~entry.busy_usage_gco2eq.none /\ ~entry.idle_usage_gco2eq.none
EntryRank(status) ==
  CASE status = "initialized" -> 0
    [] status = "downloaded" -> 1
    [] status = "processed" -> 2
    [] status = "complete" -> 3
StatusFollowsData ==
  /\ [](/\ entry.status \in {"initialized", "downloaded", "processed", "complete"}
        /\ (entry.status = "complete") <=>
             (EntryCpuSet /\ EntryKwhSet /\ EntryCarbonSet
                /\ ~entry.user_info.none /\ ~entry.timestamp.none)
        /\ (entry.status = "processed") <=>
             (EntryCpuSet /\ EntryKwhSet /\ EntryCarbonSet
                /\ (entry.user_info.none \/ entry.timestamp.none))
        /\ (entry.status = "downloaded") <=>
             (EntryCpuSet /\ (~EntryKwhSet \/ ~EntryCarbonSet))
        /\ (entry.status = "initialized") <=> ~EntryCpuSet)
  /\ [][EntryRank(entry'.status) >= EntryRank(entry.status)]_vars

\* CPU seconds and energy are set, the carbon is not: the entry is still
\* "downloaded", with a timestamp and user info already there.
StatusFollowsDataWitness ==
  /\ EntryCpuSet /\ EntryKwhSet /\ ~EntryCarbonSet
  /\ ~entry.user_info.none /\ ~entry.timestamp.none
  /\ entry.status = "downloaded"

\* C23 (SpecEst).  The status of an EstimatedUsageEntry after any sequence of
\* setter calls: "fake" iff kWh and gCO2eq are both set and the CPU seconds
\* are not; "not downloaded" iff the CPU seconds are not set and kWh or
\* gCO2eq is missing; "unprocessed" iff the CPU seconds are set and kWh or
\* gCO2eq is missing; "processed" iff all three are set.  And set_timestamp
\* never changes the status.
EstCpuSet == ~est.obj.busy_cpu_seconds_total.none /\ ~est.obj.idle_cpu_seconds_total.none
EstKwhSet == ~est.obj.busy_usage_kwh.none /\ ~est.obj.idle_usage_kwh.none
EstCo2Set == ~est.obj.busy_usage_gCO2eq.none /\ ~est.obj.idle_usage_gCO2eq.none
StatusPrecedence ==
  /\ [](/\ (est.obj.status = "fake") <=> (EstKwhSet /\ EstCo2Set /\ ~EstCpuSet)
        /\ (est.obj.status = "not downloaded") <=>
             (~EstCpuSet /\ (~EstKwhSet \/ ~EstCo2Set))
        /\ (est.obj.status = "unprocessed") <=>
             (EstCpuSet /\ (~EstKwhSet \/ ~EstCo2Set))
        /\ (est.obj.status = "processed") <=> (EstCpuSet /\ EstKwhSet /\ EstCo2Set))
  /\ [][est'.call = "set_timestamp" => est'.obj.status = est.obj.status]_vars

\* Usage without CPU seconds, and a timestamp set after that: still "fake".
StatusPrecedenceWitness ==
  /\ est.call = "set_timestamp" /\ ~est.obj.timestamp.none
  /\ EstKwhSet /\ EstCo2Set /\ ~EstCpuSet
  /\ est.obj.status = "fake"

\* C24 (SpecTiers).  Two-tier CPU query order, as stated: in every
\* aggregation the precise CPU expression is queried first; the coarse one is
\* queried iff the precise query failed, and after it; the RAM query is
\* issued only after a CPU tier succeeded; the aggregation fails exactly when
\* both CPU tiers fail or the RAM query fails; at most three queries are
\* issued.
Aggregated(p) == api[p].pc \in {"save", "done"} /\ api[p].qlog # <<>>
ExprsAt(q) == [i \in DOMAIN q |-> q[i].expr]
Failed(q, e) == \E i \in DOMAIN q : q[i].expr = e /\ q[i].out = "raise"
Returned(q, e) == \E i \in DOMAIN q : q[i].expr = e /\ q[i].out # "raise"
TierOrder(q) ==
  /\ Len(q) <= 3
  /\ q[1].expr = "cpu_rich"
  /\ \A i \in DOMAIN q : \A j \in DOMAIN q : (i # j) => q[i].expr # q[j].expr
  /\ (\E i \in DOMAIN q : q[i].expr = "cpu_fast") <=> Failed(q, "cpu_rich")
  /\ \A i \in DOMAIN q : q[i].expr = "cpu_fast" => i = 2
  /\ \A i \in DOMAIN q : q[i].expr = "ram" =>
        /\ i = Len(q)
        /\ \E j \in 1..(i - 1) : q[j].expr \in {"cpu_rich", "cpu_fast"} /\ q[j].out # "raise"
Unreadable(q) == \E i \in DOMAIN q : q[i].out = "badseries"
Unmapped(source) == source \notin {"clf", "isis", "diamond"}
UnknownSourceNeverLive ==
  /\ [](/\ \A p \in ApiProcs :
             (api[p].pc \in {"save", "done"} /\ api[p].range_key \in ValidRanges
                /\ Unmapped(api[p].source)) =>
               /\ api[p].qlog = <<>> /\ ~api[p].ok
               /\ ~api[p].looked /\ api[p].row = 0 /\ api[p].saved = 0
               /\ api[p].labels = _make_series(api[p].range_key, api[p].spec).labels
               /\ api[p].kwh = _make_series(api[p].range_key, api[p].spec).kwh
               /\ api[p].pc = "done" =>
                    /\ api[p].resp.status = 200 /\ api[p].resp.from = "compute"
                    /\ api[p].resp.kwh = _make_series(api[p].range_key, api[p].spec).kwh
        /\ \A i \in DOMAIN rows : rows[i].source \in {"clf", "isis", "diamond"}
        /\ (cmd.outcome # "" /\ cmd.key # <<>> /\ Unmapped(cmd.key[1])) =>
             cmd.outcome = "fail" /\ cmd.qlog = <<>> /\ cmd.saved = 0)
  /\ [][/\ \A p \in ApiProcs :
             (Unmapped(api[p].source) /\ api[p].pc # "idle" /\ api'[p] # api[p])
               => rows' = rows
        /\ (cmd.pc \in {"check", "aggregate", "create"} /\ cmd' # cmd
              /\ Unmapped(cmd.tasks[cmd.i][1])) => rows' = rows]_vars

\* A request for source "other" has been answered while the table holds a
\* row of clf, and a refresh run has failed its task for "other".
UnknownSourceNeverLiveWitness ==
  /\ api["w1"].pc = "done" /\ api["w1"].source = "other"
  /\ api["w1"].resp.status = 200 /\ ~api["w1"].GET.force_refresh
  /\ rows # <<>>
  /\ cmd.outcome = "fail" /\ cmd.key # <<>> /\ cmd.key[1] = "other"

\* C26 (SpecPoll).  The carbon-intensity cache of the polling loop: a call of
\* _get_ci_gpkwh that finds a value fetched less than 300 s ago makes no HTTP
\* request and returns that value; one that finds no value, or one 300 s old
\* or older, fetches, and takes "actual" when the reply has it and "forecast"
\* otherwise; when the fetch fails or yields no value the call returns the
\* last value fetched with success, or 220 when there is none.
CiFetched ==
  IF poll.reply.kind # "row" THEN Absent
  ELSE IF poll.reply.actual.present THEN poll.reply.actual
  ELSE poll.reply.forecast
CiCacheRule ==
  poll.called =>
    IF ~poll.before.val.none /\ poll.at - poll.before.ts < 300
      THEN /\ ~poll.http
           /\ poll.ret = poll.before.val.v
           /\ poll.val = poll.before.val /\ poll.ts = poll.before.ts
    ELSE /\ poll.http
         /\ IF CiFetched.present /\ CiFetched.ok
              THEN /\ poll.ret = CiFetched.v
                   /\ poll.val = Some(CiFetched.v) /\ poll.ts = poll.at
            ELSE /\ poll.ret = (IF poll.before.val.none THEN 220 ELSE poll.before.val.v)
                 /\ poll.val = poll.before.val /\ poll.ts = poll.before.ts

\* A value fetched 300 s before is in the cache; the call fetches again, the
\* reply has no actual value, and the forecast is taken.
CiCacheRuleWitness ==
  /\ poll.called /\ ~poll.before.val.none
  /\ poll.at - poll.before.ts = 300
  /\ poll.http /\ poll.reply.kind = "row"
  /\ ~poll.reply.actual.present /\ poll.reply.forecast.ok
  /\ poll.ret = 200

\* C27 (SpecWindow).  The window metadata of a persisted row is the window
\* the live aggregation used: start_unix, end_unix and step_seconds of the
\* row a request inserted equal the start, end and step of the window its
\* aggregation queried and binned with, also when the clock has moved on
\* between the aggregation and the insert.
WindowMetadataMatches ==
  \A p \in ApiProcs :
    (api[p].pc = "done" /\ api[p].saved # 0 /\ api[p].ok) =>
      /\ rows[api[p].saved].start_unix = api[p].win[1]
      /\ rows[api[p].saved].end_unix = api[p].win[2]
      /\ rows[api[p].saved].step_seconds = api[p].win[3]

\* C28 (SpecRecover).  A fallback result is cached like a live one: when the
\* live aggregation of a known source fails and the request falls back, the
\* synthetic series is inserted as an ordinary row, with the fields of any
\* row and none that tells it from a live one; and every non-forced request
\* for the same key that reads the table before the row is one TTL old is
\* answered from the cache, from that row while it is the newest of its key,
\* without a backend query, also when the backend would answer again.
RowFields ==
  {"source", "range_key", "spec_hash", "spec_json", "labels", "kwh", "total_kwh",
   "start_unix", "end_unix", "step_seconds", "created_at", "updated_at"}
SyntheticRow(r) ==
  /\ r.labels = _make_series(r.range_key, r.spec_json).labels
  /\ r.kwh = _make_series(r.range_key, r.spec_json).kwh
FallbackIsCached ==
  \A p \in ApiProcs :
    /\ (api[p].pc = "done" /\ api[p].qlog # <<>> /\ ~api[p].ok /\ ~api[p].save_err) =>
         /\ api[p].saved \in DOMAIN rows
         /\ SyntheticRow(rows[api[p].saved])
         /\ DOMAIN rows[api[p].saved] = RowFields
         /\ rows[api[p].saved].source = api[p].source
         /\ rows[api[p].saved].range_key = api[p].range_key
         /\ rows[api[p].saved].spec_hash = api[p].shash
    /\ \A i \in DOMAIN rows :
         (/\ api[p].pc \in {"compute", "save", "done"}
          /\ api[p].range_key \in ValidRanges
          /\ ~api[p].force_refresh
          /\ i <= api[p].readLen
          /\ SyntheticRow(rows[i])
          /\ rows[i].source = api[p].source
          /\ rows[i].range_key = api[p].range_key
          /\ rows[i].spec_hash = api[p].shash
          /\ api[p].readAt - rows[i].updated_at[1] < _cache_ttl_seconds(api[p].range_key)) =>
            /\ api[p].pc = "done"
            /\ api[p].resp.from = "db"
            /\ api[p].qlog = <<>> /\ api[p].saved = 0
            /\ api[p].row # 0
            /\ (\A j \in 1..api[p].readLen :
                  (j # i /\ rows[j].source = rows[i].source
                     /\ rows[j].range_key = rows[i].range_key
                     /\ rows[j].spec_hash = rows[i].spec_hash)
                    => StampLess(rows[j].updated_at, rows[i].updated_at)) =>
                 /\ api[p].row = i
                 /\ api[p].resp.kwh = rows[i].kwh

\* A request is answered from a row that holds the synthetic series, half an
\* hour after the fallback that stored it.
FallbackIsCachedWitness ==
  /\ api["w1"].pc = "done" /\ api["w1"].resp.from = "db"
  /\ api["w1"].row # 0
  /\ SyntheticRow(rows[api["w1"].row])
  /\ api["w1"].readAt - rows[api["w1"].row].updated_at[1] = 1800

\* C29 (SpecWsRace).  One accumulator per host: at any time the Workspace
\* table holds at most one row for a (source, hostname), also when two
\* sync_workspaces processes run at the same time.
OneRowPerHost ==
  \A i \in DOMAIN wsRows : \A j \in DOMAIN wsRows :
    (wsRows[i].source = wsRows[j].source /\ wsRows[i].hostname = wsRows[j].hostname)
      => i = j

\* C30 (SpecWs).  Idle totals never exceed the overall totals: in every
\* Workspace state reached from a new row by record_usage calls, whatever
\* their arguments, idle_kwh <= total_kwh and idle_kg <= total_kg; in the
\* object a process holds and in the stored row.
IdleWithinTotals(ws) == ws.idle_kwh <= ws.total_kwh /\ ws.idle_kg <= ws.total_kg
IdleNeverExceedsTotal ==
  /\ \A i \in DOMAIN wsRows : IdleWithinTotals(wsRows[i])
  /\ \A w \in WsProcs : wr[w].pc \in {"got", "loaded"} => IdleWithinTotals(wr[w].obj)

\* A row that took idle and busy samples with an intensity: its idle totals
\* are positive and below the overall totals.
IdleNeverExceedsTotalWitness ==
  \E i \in DOMAIN wsRows :
    /\ wsFed[i].calls >= 2
    /\ 0 < wsRows[i].idle_kwh /\ wsRows[i].idle_kwh < wsRows[i].total_kwh
    /\ 0 < wsRows[i].idle_kg /\ wsRows[i].idle_kg < wsRows[i].total_kg

====
